---- MODULE Spec2Model ----
(***************************************************************************)
(* camproxy: the permanent cache (percache.PerCache), the retry transport  *)
(* (camutil.retryTransport) and the upload / download pipeline             *)
(* (camutil.Uploader, camutil.Downloader), modelled as state machines.     *)
(*                                                                         *)
(* Each subsystem has its own specification (SpecPC, SpecRT, SpecUD) over  *)
(* the shared variable list; a specification keeps the other subsystems'   *)
(* variables at their idle values.                                         *)
(***************************************************************************)
EXTENDS Integers, Sequences, FiniteSets, TLC

(***************************************************************************)
(* Bounds of the model.                                                    *)
(***************************************************************************)
\* longest byte stream that is put / uploaded
MaxLen == 2
\* maxSize handed to percache.New (ristretto MaxCost), in bytes
MaxCost == 2
\* number of Put / ReceiveBlob calls in one behaviour
MaxOps == 2
\* capacity of ristretto's set buffer (a Set on a full buffer is dropped)
SetBufCap == 2
\* the byte slack the size invariant grants on top of MaxCost
BufferSlack == 3
\* bytes of a file schema blob besides its parts
FileBase == 1
\* largest chunk the chunker emits
ChunkLen == 1

Bytes == {1, 2}
NodeIDs == {"a", "b"}
None == [none |-> TRUE]

Min(a, b) == IF a < b THEN a ELSE b

SeqsUpTo(S, n) == UNION {[1..m -> S] : m \in 0..n}
Values == SeqsUpTo(Bytes, MaxLen)

RECURSIVE Concat(_)
Concat(ss) == IF ss = <<>> THEN <<>> ELSE Head(ss) \o Concat(Tail(ss))

RECURSIVE SumOver(_, _)
SumOver(S, f) ==
  IF S = {} THEN 0
  ELSE LET x == CHOOSE y \in S : TRUE IN f[x] + SumOver(S \ {x}, f)

(***************************************************************************)
(* Blobs.  A ref is the hash of the blob's bytes; the model identifies a   *)
(* ref with the blob it addresses (an injective hash).                     *)
(***************************************************************************)
ChunkBlob(d) == [kind |-> "bytes", name |-> "", parts |-> <<>>, data |-> d]
FileBlob(n, ps) == [kind |-> "file", name |-> n, parts |-> ps, data |-> <<>>]

\* the chunker of schema.WriteFileFromReader: the stream cut into chunks
Chunker(v) ==
  LET n == (Len(v) + ChunkLen - 1) \div ChunkLen
  IN [i \in 1..n |-> SubSeq(v, (i - 1) * ChunkLen + 1, Min(i * ChunkLen, Len(v)))]

\* stored byte length of a blob
BlobSize(b) == IF b.kind = "bytes" THEN Len(b.data) ELSE FileBase + Len(b.parts)

AllChunks == {ChunkBlob(d) : d \in SeqsUpTo(Bytes, ChunkLen) \ {<<>>}}
AllFiles == {FileBlob(n, Chunker(v)) : n \in NodeIDs, v \in Values}
AllBlobs == AllChunks \cup AllFiles

VARIABLES
  \* ---- PerCache ----
  names,      \* the ","-rows: nodeID -> content ref (None: no row)
  rows,       \* the "/"-rows: the refs stored (a row's value is the blob)
  cache,      \* TinyLFU: the admitted items [key, cost]
  setBuf,     \* ristretto set buffer: Sets not yet processed
  evicting,   \* victims whose OnEvict callback has not run yet
  put,        \* the Put in flight
  putRes,     \* outcome of a Put, while its return was the last action
  getRes,     \* outcome of a Get, while the Get was the last action
  ops         \* Put / ReceiveBlob calls so far

VARIABLES
  \* ---- retryTransport.RoundTrip ----
  rtPc,        \* "enter", "try" (before an attempt), "next" (in iter.Next), "done"
  rtReq,       \* the request: its body, if any, and the caller's GetBody hook
  rtStrat,     \* tr.Strategy
  rtCount,     \* the iterator's count of tries
  rtCalls,     \* invocations of the underlying RoundTrip
  rtBuf,       \* buf: the bytes the tee has copied
  rtPos,       \* bytes consumed from oldBody
  rtBody,      \* req.Body: the reader the next attempt gets
  rtHanded,    \* the bytes the body of the last attempt would yield when read to its end
  rtLast,      \* resp and err of the last attempt
  rtCancelled, \* ctx is cancelled
  rtStop,      \* why iter.Next returned false
  rtResult     \* what RoundTrip returned

VARIABLES
  udStore,  \* the blobs of the blob store behind the Uploader and the Downloader
  udUp,     \* the last upload: its input and what it returned
  udCam,    \* the loop of Uploader.camput: i, refs, lastErr, down
  udDl,     \* the last Downloader.Start: its input, what it returned, what was read
  udOps     \* uploads made

VARIABLES
  gtGate,   \* u.gate: the permits taken (elements in the channel)
  gtProc,   \* the callers of the Uploader's entry points
  gtCalls   \* calls made

VARIABLES
  b64In,    \* what the first call was given
  b64Pc,    \* "ref": a ref to encode, "text": a text to parse, "done"
  b64Text,  \* the text at hand
  b64Ref,   \* the ref at hand
  b64Err,   \* the error of Base64ToRef
  b64Hist   \* the calls made

VARIABLES
  laIn,     \* the call: entry point, whether u.Client is set, attrs
  laPc,     \* "idle", "NewPermanode", "SetPermanodeAttrs", "done"
  laTodo,   \* the attributes SetPermanodeAttrs has still to set
  laSet,    \* the attributes set on the permanode
  laStored, \* the permanode is in the store
  laRes,    \* what the entry point returned
  laCalls   \* calls made

VARIABLES
  htReq,    \* the request served last, with what its environment did
  htResp,   \* the response to it
  htCalls   \* requests served

\* MIMETypeFromReader and the reader it returns
VARIABLES
  mmIn,      \* the reader handed in: its length, its first byte, where it fails
  mmPc,      \* "idle", "copy" (inside io.Copy), "returned", "done"
  mmPos,     \* bytes consumed from the underlying reader so far
  mmBuf,     \* buf
  mmLimit,   \* N of the LimitedReader
  mmRet,     \* what the call returned
  mmOff,     \* bytes of the buffered prefix the returned reader has delivered
  mmOut,     \* bytes read from the returned reader
  mmOutErr   \* how reading the returned reader ended

\* a GET download through respWriter, and the MimeCache
VARIABLES
  rwReq,     \* the request: the body behind the ref, mimeType, raw, the cache entry met
  rwPc,      \* "idle", "copy" (inside io.Copy(rw, rc)), "done"
  rwSrc,     \* rc: the sniffed prefix still to replay and the position in the stream
  rwW,       \* the respWriter
  rwResp,    \* the http.ResponseWriter: what the client has been sent
  rwCache,   \* mimeCache: the type stored under the short key of the ref, "" if none
  rwCalls    \* requests handled

\* PerCache.Close against the eviction callback
VARIABLES
  clMu,      \* pc.mu: "free", or the goroutine that holds it
  clClose,   \* Close: "idle", "lock" (waits for pc.mu), "stop" (holds pc.mu, in cache.Close), "done"
  clProc,    \* the goroutine of the cache: "select", "wantMu", "inEvict", "returned"
  clVictim,  \* the key the running callback was issued for, 0 if none
  clBuf,     \* setBuf of the cache: keys set and not yet processed
  clCache,   \* the keys the policy has admitted
  clRows     \* the keys that have a "/"-row in the store

\* Storage.EnumerateBlobs of the KV-backed blob storage
VARIABLES
  enStore,   \* the refs that have a row under the prefix
  enCall,    \* the arguments of the last call: after (0 is ""), limit, cancelAt
  enDest,    \* what was sent to dest
  enClosed,  \* how many times dest was closed
  enRet,     \* "none", "nil" or "ctxErr"
  enCalls    \* calls made

\* limited.Storage over an underlying storage
VARIABLES
  lmStore,     \* the blobs of the underlying storage
  lmLru,       \* the keys of the simplelru.LRU, the oldest first
  lmCaptured,  \* lastEvicted of the lruPolicy the eviction callback writes to (0 is "")
  lmPolicy     \* lastEvicted of the lruPolicy that LRUEvictPolicy returned

\* smartFetch of a static-set: the dispatch to the workers and the collection
VARIABLES
  sfIn,      \* the static-set: the number of members and the members whose fetch fails
  sfPc,      \* "idle", "dispatch", "collect", "returned"
  sfSent,    \* members sent to workc
  sfTaken,   \* members a worker has received from workc
  sfDone,    \* members whose result is in their errc
  sfGot,     \* results the collecting loop has received
  sfRet      \* the result: 0 for nil, else the member whose error is returned

\* trace.Storage: the wrapped operation, the forwarding goroutine and the hooks
VARIABLES
  trIn,        \* the call: the refs the wrapped storage enumerates and its error
  trMain,      \* "idle", "enum" (inside the wrapped EnumerateBlobs), "hook", "done"
  trSent,      \* refs the wrapped storage has sent on ch
  trGo,        \* the goroutine: "none", "recv", "fwd", "append", "exited", "panic"
  trDest,      \* what the caller's channel has carried
  trSized,     \* the slice the goroutine appends to
  trChClosed,  \* number of close(ch)
  trDestClosed,\* number of close(dest)
  trHooks      \* the calls of the hooks, in order: [op, list, err, after]

\* the get tool run by Downloader.Start: the child, its stdout pipe, Run and the caller's read
VARIABLES
  dcOut,     \* the bytes the tool writes to its stdout, and whether it exits with 0
  dcWritten, \* bytes the child has written to the pipe
  dcPipe,    \* bytes in the pipe, not yet read
  dcChild,   \* "none", "running", "exited"
  dcStart,   \* Downloader.Start: "idle", "run" (inside c.Run), "reader", "error"
  dcClosed,  \* the read side of the pipe is closed
  dcGot      \* what the caller read from the returned reader

pcVars == <<names, rows, cache, setBuf, evicting, put, putRes, getRes, ops>>
rtVars == <<rtPc, rtReq, rtStrat, rtCount, rtCalls, rtBuf, rtPos, rtBody, rtHanded,
            rtLast, rtCancelled, rtStop, rtResult>>
udVars == <<udStore, udUp, udCam, udDl, udOps>>
gtVars == <<gtGate, gtProc, gtCalls>>
b64Vars == <<b64In, b64Pc, b64Text, b64Ref, b64Err, b64Hist>>
laVars == <<laIn, laPc, laTodo, laSet, laStored, laRes, laCalls>>
htVars == <<htReq, htResp, htCalls>>
mmVars == <<mmIn, mmPc, mmPos, mmBuf, mmLimit, mmRet, mmOff, mmOut, mmOutErr>>
rwVars == <<rwReq, rwPc, rwSrc, rwW, rwResp, rwCache, rwCalls>>
clVars == <<clMu, clClose, clProc, clVictim, clBuf, clCache, clRows>>
enVars == <<enStore, enCall, enDest, enClosed, enRet, enCalls>>
lmVars == <<lmStore, lmLru, lmCaptured, lmPolicy>>
sfVars == <<sfIn, sfPc, sfSent, sfTaken, sfDone, sfGot, sfRet>>
trVars == <<trIn, trMain, trSent, trGo, trDest, trSized, trChClosed, trDestClosed, trHooks>>
dcVars == <<dcOut, dcWritten, dcPipe, dcChild, dcStart, dcClosed, dcGot>>
vars == <<pcVars, rtVars, udVars, gtVars, b64Vars, laVars, htVars, mmVars, rwVars, clVars, enVars, lmVars, sfVars, trVars, dcVars>>
\* what the actions of one component leave alone
exceptPC == <<rtVars, udVars, gtVars, b64Vars, laVars, htVars, mmVars, rwVars, clVars, enVars, lmVars, sfVars, trVars, dcVars>>
exceptRT == <<pcVars, udVars, gtVars, b64Vars, laVars, htVars, mmVars, rwVars, clVars, enVars, lmVars, sfVars, trVars, dcVars>>
exceptUD == <<pcVars, rtVars, gtVars, b64Vars, laVars, htVars, mmVars, rwVars, clVars, enVars, lmVars, sfVars, trVars, dcVars>>
exceptGT == <<pcVars, rtVars, udVars, b64Vars, laVars, htVars, mmVars, rwVars, clVars, enVars, lmVars, sfVars, trVars, dcVars>>
exceptLA == <<pcVars, rtVars, udVars, gtVars, b64Vars, htVars, mmVars, rwVars, clVars, enVars, lmVars, sfVars, trVars, dcVars>>
exceptHT == <<pcVars, rtVars, udVars, gtVars, b64Vars, laVars, mmVars, rwVars, clVars, enVars, lmVars, sfVars, trVars, dcVars>>
exceptB64 == <<pcVars, rtVars, udVars, gtVars, laVars, htVars, mmVars, rwVars, clVars, enVars, lmVars, sfVars, trVars, dcVars>>
exceptDC == <<pcVars, rtVars, udVars, gtVars, b64Vars, laVars, htVars, mmVars, rwVars, clVars, enVars, lmVars, sfVars, trVars>>
exceptTR == <<pcVars, rtVars, udVars, gtVars, b64Vars, laVars, htVars, mmVars, rwVars, clVars, enVars, lmVars, sfVars, dcVars>>
exceptSF == <<pcVars, rtVars, udVars, gtVars, b64Vars, laVars, htVars, mmVars, rwVars, clVars, enVars, lmVars, trVars, dcVars>>
exceptLM == <<pcVars, rtVars, udVars, gtVars, b64Vars, laVars, htVars, mmVars, rwVars, clVars, enVars, sfVars, trVars, dcVars>>
exceptEN == <<pcVars, rtVars, udVars, gtVars, b64Vars, laVars, htVars, mmVars, rwVars, clVars, lmVars, sfVars, trVars, dcVars>>
exceptCL == <<pcVars, rtVars, udVars, gtVars, b64Vars, laVars, htVars, mmVars, rwVars, enVars, lmVars, sfVars, trVars, dcVars>>
exceptRW == <<pcVars, rtVars, udVars, gtVars, b64Vars, laVars, htVars, mmVars, clVars, enVars, lmVars, sfVars, trVars, dcVars>>
exceptMM == <<pcVars, rtVars, udVars, gtVars, b64Vars, laVars, htVars, rwVars, clVars, enVars, lmVars, sfVars, trVars, dcVars>>

(***************************************************************************)
(* PerCache                                                                *)
(***************************************************************************)
IdlePut == [pc |-> "idle", k |-> "", v |-> <<>>, todo |-> {},
            written |-> {}, names0 |-> [n \in NodeIDs |-> None]]
NoRes == [res |-> "none", k |-> "", v |-> <<>>, written |-> {},
          names0 |-> [n \in NodeIDs |-> None]]
NoGet == [k |-> "", err |-> "none", readOk |-> FALSE, data |-> <<>>,
          afterPut |-> None, mapped |-> FALSE, fileRow |-> FALSE, chunkRows |-> FALSE]

\* ristretto Cache.Set: the item goes to the set buffer, or is dropped when
\* the buffer is full
CacheSet(buf, b, cost) ==
  IF Len(buf) >= SetBufCap THEN buf ELSE Append(buf, [key |-> b, cost |-> cost])

\* trace.Storage.OnReceive hook installed by New
OnReceive(buf, b, size) == CacheSet(buf, b, size)

\* badger Storage.ReceiveBlob behind trace.Storage.ReceiveBlob: the row is
\* written, then the hook runs with the stored size
StoReceiveBlob(b) ==
  /\ rows' = rows \cup {b}
  /\ setBuf' = OnReceive(setBuf, b, BlobSize(b))

\* schema's uploadString: stat first, receive only a blob the store lacks
UploadString(b) ==
  IF b \in rows THEN UNCHANGED <<rows, setBuf>> ELSE StoReceiveBlob(b)

\* the warm-up loop of New over a store holding the rows R: every row is
\* handed to the TinyLFU with its value length as cost
RECURSIVE WarmUp(_, _)
WarmUp(R, buf) ==
  IF R = {} THEN buf
  ELSE LET b == CHOOSE x \in R : TRUE
       IN WarmUp(R \ {b}, CacheSet(buf, b, BlobSize(b)))

File1 == FileBlob("a", Chunker(<<1>>))
InitRows == {{}, {ChunkBlob(<<1>>)}, {ChunkBlob(<<1>>), File1}}

PCInit ==
  /\ rows \in InitRows
  /\ names = [n \in NodeIDs |-> IF n = "a" /\ File1 \in rows THEN File1 ELSE None]
  /\ cache = {}
  /\ setBuf = WarmUp(rows, <<>>)
  /\ evicting = {}
  /\ put = IdlePut
  /\ putRes = NoRes
  /\ getRes = NoGet
  /\ ops = 0

\* the PerCache variables while another subsystem runs
PCIdle ==
  /\ rows = {}
  /\ names = [n \in NodeIDs |-> None]
  /\ cache = {}
  /\ setBuf = <<>>
  /\ evicting = {}
  /\ put = IdlePut
  /\ putRes = NoRes
  /\ getRes = NoGet
  /\ ops = 0

\* PerCache.Put, entry: schema.WriteFileFromReader starts chunking
PutStart(k, v) ==
  /\ put.pc = "idle"
  /\ ops < MaxOps
  /\ put' = [pc |-> "chunks", k |-> k, v |-> v,
             todo |-> {ChunkBlob(Chunker(v)[i]) : i \in DOMAIN Chunker(v)},
             written |-> {}, names0 |-> names]
  /\ putRes' = NoRes
  /\ ops' = ops + 1
  /\ getRes' = NoGet
  /\ UNCHANGED <<names, rows, cache, setBuf, evicting>>
  /\ UNCHANGED exceptPC

\* PerCache.Put: one chunk of the stream is uploaded
PutChunk ==
  /\ put.pc = "chunks"
  /\ \E c \in put.todo :
       /\ UploadString(c)
       /\ put' = [put EXCEPT !.todo = @ \ {c}, !.written = @ \cup {c}]
  /\ getRes' = NoGet
  /\ putRes' = NoRes
  /\ UNCHANGED <<names, cache, evicting, ops>>
  /\ UNCHANGED exceptPC

\* PerCache.Put: after every chunk, the file schema blob is uploaded and
\* WriteFileFromReader returns its ref
PutFile ==
  /\ put.pc = "chunks"
  /\ put.todo = {}
  /\ LET f == FileBlob(put.k, Chunker(put.v))
     IN /\ UploadString(f)
        /\ put' = [put EXCEPT !.pc = "map", !.written = @ \cup {f}]
  /\ getRes' = NoGet
  /\ putRes' = NoRes
  /\ UNCHANGED <<names, cache, evicting, ops>>
  /\ UNCHANGED exceptPC

\* PerCache.Put: db.Update writes the ","-row and Put returns nil
PutMap ==
  /\ put.pc = "map"
  /\ names' = [names EXCEPT ![put.k] = FileBlob(put.k, Chunker(put.v))]
  /\ put' = IdlePut
  /\ putRes' = [res |-> "ok", k |-> put.k, v |-> put.v, written |-> put.written,
                names0 |-> put.names0]
  /\ getRes' = NoGet
  /\ UNCHANGED <<rows, cache, setBuf, evicting, ops>>
  /\ UNCHANGED exceptPC

\* PutFail with the error of WriteFileFromReader ignored: the ","-row is
\* written although the put failed
PutFailMapped ==
  /\ put.pc \in {"chunks", "map"}
  /\ names' = [names EXCEPT ![put.k] = FileBlob(put.k, Chunker(put.v))]
  /\ put' = IdlePut
  /\ putRes' = [res |-> "err", k |-> put.k, v |-> put.v, written |-> put.written,
                names0 |-> put.names0]
  /\ getRes' = NoGet
  /\ UNCHANGED <<rows, cache, setBuf, evicting, ops>>
  /\ UNCHANGED exceptPC

\* PerCache.Put: a store write (chunk, file blob or the db.Update) fails and
\* Put returns the error
PutFail ==
  /\ put.pc \in {"chunks", "map"}
  /\ put' = IdlePut
  /\ putRes' = [res |-> "err", k |-> put.k, v |-> put.v, written |-> put.written,
                names0 |-> put.names0]
  /\ getRes' = NoGet
  /\ UNCHANGED <<names, rows, cache, setBuf, evicting, ops>>
  /\ UNCHANGED exceptPC

\* schema.NewFileReader over the store R: fetches the file schema blob
NewFileReader(R, br) == IF br \in R THEN "nil" ELSE "Corrupt"

\* reading a schema.FileReader to its end: every part is fetched by its ref
ReadAll(R, f) ==
  IF \A i \in DOMAIN f.parts : ChunkBlob(f.parts[i]) \in R
    THEN [ok |-> TRUE, data |-> Concat(f.parts)]
    ELSE [ok |-> FALSE, data |-> <<>>]

\* GetOutcome with the error of NewFileReader dropped
GetOutcomeUnchecked(k) ==
  IF names[k] = None
    THEN [err |-> "NotFound", readOk |-> FALSE, data |-> <<>>]
  ELSE [err |-> "nil", readOk |-> ReadAll(rows, names[k]).ok,
        data |-> ReadAll(rows, names[k]).data]

\* PerCache.Get and the read of the reader it returns
GetOutcome(k) ==
  IF names[k] = None
    THEN [err |-> "NotFound", readOk |-> FALSE, data |-> <<>>]
  ELSE IF NewFileReader(rows, names[k]) # "nil"
    THEN [err |-> NewFileReader(rows, names[k]), readOk |-> FALSE, data |-> <<>>]
  ELSE [err |-> "nil", readOk |-> ReadAll(rows, names[k]).ok,
        data |-> ReadAll(rows, names[k]).data]

Get(k) ==
  /\ getRes' = [k |-> k, err |-> GetOutcome(k).err, readOk |-> GetOutcome(k).readOk,
                data |-> GetOutcome(k).data, afterPut |-> IF putRes.res = "ok" THEN [k |-> putRes.k, v |-> putRes.v] ELSE None,
                mapped |-> names[k] # None,
                fileRow |-> names[k] # None /\ names[k] \in rows,
                chunkRows |-> /\ names[k] # None
                              /\ \A i \in DOMAIN names[k].parts :
                                   ChunkBlob(names[k].parts[i]) \in rows]
  /\ putRes' = NoRes
  /\ UNCHANGED <<names, rows, cache, setBuf, evicting, put, ops>>
  /\ UNCHANGED exceptPC

\* PerCache.ReceiveBlob: passed through to the traced store
ReceiveBlob(b) ==
  /\ ops < MaxOps
  /\ StoReceiveBlob(b)
  /\ ops' = ops + 1
  /\ getRes' = NoGet
  /\ putRes' = NoRes
  /\ UNCHANGED <<names, cache, evicting, put>>
  /\ UNCHANGED exceptPC

CostOf(C) == SumOver(C, [e \in C |-> e.cost])
RoomLeft(C, cost) == MaxCost - CostOf(C) - cost

\* ristretto's policy.Add for a key it does not hold: the victims V it evicts
\* and whether the item is admitted.  Victims are evicted one at a time while
\* there is no room; the loop ends by admitting the item once there is room,
\* or by rejecting it when the sampled victim has more hits than the item.
PolicyAdd(C, cost, V, added) ==
  IF cost > MaxCost THEN V = {} /\ ~added
  ELSE IF RoomLeft(C, cost) >= 0 THEN V = {} /\ added
  ELSE \/ /\ ~added
          /\ RoomLeft(C \ V, cost) < 0
       \/ /\ added
          /\ RoomLeft(C \ V, cost) >= 0
          /\ \E v \in V : RoomLeft(C \ (V \ {v}), cost) < 0

\* ristretto's processItems goroutine takes one item off the set buffer
ProcessItems ==
  /\ setBuf # <<>>
  /\ evicting = {}
  /\ LET it == Head(setBuf)
         old == {e \in cache : e.key = it.key}
     IN IF old # {}
          THEN /\ cache' = (cache \ old) \cup {it}
               /\ evicting' = {}
          ELSE \E V \in SUBSET cache, added \in BOOLEAN :
                 /\ PolicyAdd(cache, it.cost, V, added)
                 /\ cache' = (cache \ V) \cup (IF added THEN {it} ELSE {})
                 /\ evicting' = {e.key : e \in V}
  /\ setBuf' = Tail(setBuf)
  /\ getRes' = NoGet
  /\ putRes' = NoRes
  /\ UNCHANGED <<names, rows, put, ops>>
  /\ UNCHANGED exceptPC

\* PerCache.onCacheEvict: the victim's "/"-row is deleted
onCacheEvict ==
  /\ \E b \in evicting :
       /\ rows' = rows \ {b}
       /\ evicting' = evicting \ {b}
  /\ getRes' = NoGet
  /\ putRes' = NoRes
  /\ UNCHANGED <<names, cache, setBuf, put, ops>>
  /\ UNCHANGED exceptPC

(***************************************************************************)
(* retryTransport                                                          *)
(***************************************************************************)
\* most attempts a configured Strategy allows
RtMaxCount == 2
\* cap on the invocations of one RoundTrip when the Strategy sets no MaxCount
RtMaxCalls == 4
\* defaultStrategy.MaxCount
DefaultMaxCount == 3

NoResp == [status |-> 0, open |-> FALSE, err |-> "nil"]
NoBody == [pre |-> <<>>, tee |-> FALSE, old |-> FALSE]

\* what one invocation of the underlying RoundTripper may return: an error, a
\* response, or neither
Outcomes ==
  {[status |-> 0, open |-> FALSE, err |-> "neterr"], NoResp}
    \cup {[status |-> c, open |-> TRUE, err |-> "nil"] : c \in {200, 404, 500}}

Strategies == [MaxCount : 0..RtMaxCount, MaxDuration : {0, 1}]
ZeroStrategy == [MaxCount |-> 0, MaxDuration |-> 0]
\* strategy := tr.Strategy; the zero Strategy is replaced by defaultStrategy
Strategy == IF rtStrat = ZeroStrategy
              THEN [MaxCount |-> DefaultMaxCount, MaxDuration |-> 1]
              ELSE rtStrat

RTIdle ==
  /\ rtPc = "idle"
  /\ rtReq = [hasBody |-> FALSE, body |-> <<>>, getBody |-> "none"]
  /\ rtStrat = ZeroStrategy
  /\ rtCount = 0
  /\ rtCalls = 0
  /\ rtBuf = <<>>
  /\ rtPos = 0
  /\ rtBody = NoBody
  /\ rtHanded = <<>>
  /\ rtLast = NoResp
  /\ rtCancelled = FALSE
  /\ rtStop = "none"
  /\ rtResult = NoResp

\* a request reaches RoundTrip
RTInit ==
  /\ rtPc = "enter"
  /\ rtReq \in {[hasBody |-> FALSE, body |-> <<>>, getBody |-> "none"]}
               \cup [hasBody : {TRUE}, body : Values, getBody : {"none", "ok", "err"}]
  /\ rtStrat \in Strategies
  /\ rtCount = 0
  /\ rtCalls = 0
  /\ rtBuf = <<>>
  /\ rtPos = 0
  /\ rtBody = NoBody
  /\ rtHanded = <<>>
  /\ rtLast = NoResp
  /\ rtCancelled = FALSE
  /\ rtStop = "none"
  /\ rtResult = NoResp

HasBody == rtReq.hasBody
Drop(q, n) == SubSeq(q, n + 1, Len(q))

\* the bytes of oldBody not consumed yet
OldRest(pos) == IF HasBody THEN Drop(rtReq.body, pos) ELSE <<>>

\* the bytes a body yields when it is read to its end
BodyYield(b, pos) == b.pre \o (IF b.old THEN OldRest(pos) ELSE <<>>)

\* the body req.GetBody returns: the hook RoundTrip installs gives the bytes
\* buffered so far followed by oldBody; a caller's hook gives a fresh copy
GetBody(buf) ==
  IF rtReq.getBody = "none"
    THEN [pre |-> buf, tee |-> FALSE, old |-> TRUE]
    ELSE [pre |-> rtReq.body, tee |-> FALSE, old |-> FALSE]

\* RoundTrip up to the loop: the strategy is chosen, a body without GetBody is
\* wrapped in the tee, and the iterator is started
Enter ==
  /\ rtPc = "enter"
  /\ rtBody' = IF ~HasBody THEN NoBody
               ELSE [pre |-> <<>>, tee |-> rtReq.getBody = "none", old |-> TRUE]
  /\ rtCount' = 1
  /\ rtPc' = "try"
  /\ UNCHANGED <<rtReq, rtStrat, rtCalls, rtBuf, rtPos, rtHanded, rtLast,
                 rtCancelled, rtStop, rtResult>>
  /\ UNCHANGED exceptRT

\* the first test of the loop body: this response is returned as it is
IsFinal(o) == o.err = "nil" /\ o.status # 0 /\ o.status < 500

\* one pass of the loop up to iter.Next: the underlying RoundTrip is invoked
\* and reads n bytes of the body, then the response is returned, or the body
\* is reset and the response closed for a further attempt
Attempt ==
  /\ rtPc = "try"
  /\ rtCalls < RtMaxCalls
  /\ \E o \in Outcomes, n \in 0..Len(BodyYield(rtBody, rtPos)) :
       LET fromPre == Min(n, Len(rtBody.pre))
           fromOld == n - fromPre
           pos == rtPos + fromOld
           buf == IF rtBody.tee
                    THEN rtBuf \o SubSeq(rtReq.body, rtPos + 1, rtPos + fromOld)
                    ELSE rtBuf
       IN /\ rtHanded' = BodyYield(rtBody, rtPos)
          /\ rtCalls' = rtCalls + 1
          /\ rtPos' = pos
          /\ rtBuf' = buf
          /\ IF IsFinal(o)
               THEN /\ rtLast' = o
                    /\ rtResult' = o
                    /\ rtPc' = "done"
                    /\ rtBody' = [rtBody EXCEPT !.pre = Drop(@, fromPre)]
             ELSE IF HasBody /\ rtReq.getBody = "err"
               THEN /\ rtLast' = o
                    /\ rtResult' = IF o.status = 0 /\ o.err = "nil"
                                     THEN [o EXCEPT !.err = "getBodyErr"] ELSE o
                    /\ rtPc' = "done"
                    /\ rtBody' = [rtBody EXCEPT !.pre = Drop(@, fromPre)]
             ELSE /\ rtLast' = [o EXCEPT !.open = FALSE]
                  /\ rtBody' = IF HasBody THEN GetBody(buf) ELSE NoBody
                  /\ rtPc' = "next"
                  /\ UNCHANGED rtResult
  /\ UNCHANGED <<rtReq, rtStrat, rtCount, rtCancelled, rtStop>>
  /\ UNCHANGED exceptRT

\* AfterLoop without the look at ctx.Err()
AfterLoopNoCtx(last, cancelled) ==
  IF last.status = 0 /\ last.err = "nil"
    THEN [last EXCEPT !.err = "ErrEmptyResponse"]
    ELSE last

\* the end of RoundTrip, after the loop
AfterLoop(last, cancelled) ==
  IF last.status = 0 /\ last.err = "nil"
    THEN [last EXCEPT !.err = IF cancelled THEN "Canceled" ELSE "ErrEmptyResponse"]
    ELSE last

\* MayRetry counting the retries instead of the tries
MayRetryOffByOne(count) == Strategy.MaxCount = 0 \/ count <= Strategy.MaxCount

\* iter.Next(ctx.Done()) reports whether a further try is to be made: not
\* after MaxCount tries, not after MaxDuration, not once ctx is done
MayRetry(count) == Strategy.MaxCount = 0 \/ count < Strategy.MaxCount

IterNext ==
  /\ rtPc = "next"
  /\ \/ /\ MayRetry(rtCount)
        /\ rtCalls < RtMaxCalls
        /\ rtCount' = rtCount + 1
        /\ rtPc' = "try"
        /\ UNCHANGED <<rtStop, rtResult>>
     \/ /\ \/ ~MayRetry(rtCount) /\ rtStop' = "count"
           \/ Strategy.MaxDuration > 0 /\ rtStop' = "time"
           \/ rtCancelled /\ rtStop' = "ctx"
        /\ rtResult' = AfterLoop(rtLast, rtCancelled)
        /\ rtPc' = "done"
        /\ UNCHANGED rtCount
  /\ UNCHANGED <<rtReq, rtStrat, rtCalls, rtBuf, rtPos, rtBody, rtHanded, rtLast,
                 rtCancelled>>
  /\ UNCHANGED exceptRT

\* the request's context is cancelled
Cancel ==
  /\ rtPc \in {"try", "next"}
  /\ ~rtCancelled
  /\ rtCancelled' = TRUE
  /\ UNCHANGED <<rtPc, rtReq, rtStrat, rtCount, rtCalls, rtBuf, rtPos, rtBody,
                 rtHanded, rtLast, rtStop, rtResult>>
  /\ UNCHANGED exceptRT

(***************************************************************************)
(* Uploader and Downloader over a perkeep blob store.  The store only      *)
(* grows; a ref is identified with the blob it addresses.                  *)
(***************************************************************************)

\* uploads per behaviour
MaxUploads == 1
\* refs per Downloader.Start call
MaxItems == 2
\* the iterations of the loop in Uploader.camput
AttemptCeiling == 10
\* the leading entries of refs that camput and UploadFileExt read: refs[0],
\* refs[1]; the entries appended behind them are never read and are left out
RefsRead == 2

DirBlob(n) == [kind |-> "directory", name |-> n, parts |-> <<>>, data |-> <<>>]
\* a permanode with its camliContent claim for the content c
PermaBlob(c) == [kind |-> "permanode", name |-> c.name, parts |-> c.parts, data |-> <<>>]

\* the bytes of a blob as stored: a schema blob is JSON (opens with a byte
\* that is no content byte here), a chunk is its data
RawBytes(b) == IF b.kind = "bytes" THEN b.data ELSE <<0>> \o Concat(b.parts)

\* paths on disk: regular files with their bytes, and a directory
Paths == [regular : {TRUE}, name : NodeIDs, s : Values]
           \cup [regular : {FALSE}, name : {"a"}, s : {<<1>>}]

NoUp == [via |-> "none", res |-> "none", name |-> "", s |-> <<>>,
         content |-> None, perma |-> None]
NoCam == [pc |-> "idle", i |-> 0, refs |-> <<>>, lastErr |-> "nil", down |-> FALSE,
          verified |-> FALSE, out |-> <<>>, permanode |-> FALSE, path |-> [regular |-> TRUE, name |-> "", s |-> <<>>]]
NoDl == [done |-> FALSE, contents |-> FALSE, items |-> <<>>, faulted |-> FALSE,
         err |-> "nil", readOk |-> FALSE, data |-> <<>>, trail |-> <<>>]

UDIdle ==
  /\ udStore = {}
  /\ udUp = NoUp
  /\ udCam = NoCam
  /\ udDl = NoDl
  /\ udOps = MaxUploads

\* NewUploader / NewDownloader over an empty store
UDInit ==
  /\ udStore = {}
  /\ udUp = NoUp
  /\ udCam = NoCam
  /\ udDl = NoDl
  /\ udOps = 0

\* the blobs schema.WriteFileMap sends, in the order it sends them
WriteOrder(n, s) ==
  [i \in 1..Len(Chunker(s)) |-> ChunkBlob(Chunker(s)[i])] \o <<FileBlob(n, Chunker(s))>>

\* schema.WriteFileMap that stops after sending the first m blobs
WriteFileMap(n, s, m) == {WriteOrder(n, s)[i] : i \in 1..m}

\* the outcome of schema.WriteFileFromReader / WriteFileMap behind the gate:
\* all blobs sent and the file blob's ref returned, or an error of the store
\* after m blobs
Written(via, n, s, m) ==
  IF m = Len(WriteOrder(n, s))
    THEN [NoUp EXCEPT !.via = via, !.res = "ok", !.name = n, !.s = s,
                      !.content = FileBlob(n, Chunker(s))]
    ELSE [NoUp EXCEPT !.via = via, !.res = "err", !.name = n, !.s = s]

\* Uploader.FromReader
FromReader(n, s) ==
  /\ udCam.pc = "idle"
  /\ udOps < MaxUploads
  /\ \E m \in 0..Len(WriteOrder(n, s)) :
       /\ udStore' = udStore \cup WriteFileMap(n, s, m)
       /\ udUp' = Written("FromReader", n, s, m)
  /\ udOps' = udOps + 1
  /\ udDl' = NoDl
  /\ UNCHANGED udCam
  /\ UNCHANGED exceptUD

\* Uploader.FromReaderInfo
FromReaderInfo(n, s) ==
  /\ udCam.pc = "idle"
  /\ udOps < MaxUploads
  /\ \E m \in 0..Len(WriteOrder(n, s)) :
       /\ udStore' = udStore \cup WriteFileMap(n, s, m)
       /\ udUp' = Written("FromReaderInfo", n, s, m)
  /\ udOps' = udOps + 1
  /\ udDl' = NoDl
  /\ UNCHANGED udCam
  /\ UNCHANGED exceptUD

\* the direct branch of Uploader.UploadFile: UploadFileMIME, then the
\* permanode and its claim when asked for; pf is the step that fails
UploadDirect(p, permanode, pf) ==
  LET all == Len(WriteOrder(p.name, p.s))
      c == FileBlob(p.name, Chunker(p.s))
  IN IF pf = "write"
       THEN \E m \in 0..(all - 1) :
              /\ udStore' = udStore \cup WriteFileMap(p.name, p.s, m)
              /\ udUp' = Written("UploadFile", p.name, p.s, m)
     ELSE IF ~permanode
       THEN /\ pf = "none"
            /\ udStore' = udStore \cup WriteFileMap(p.name, p.s, all)
            /\ udUp' = Written("UploadFile", p.name, p.s, all)
     ELSE IF pf = "plan"
       THEN /\ udStore' = udStore \cup WriteFileMap(p.name, p.s, all)
            /\ udUp' = [Written("UploadFile", p.name, p.s, all) EXCEPT !.res = "err"]
     ELSE /\ udStore' = udStore \cup WriteFileMap(p.name, p.s, all) \cup {PermaBlob(c)}
          /\ udUp' = [Written("UploadFile", p.name, p.s, all) EXCEPT
                        !.perma = PermaBlob(c),
                        !.res = IF pf = "claim" THEN "err" ELSE "ok"]

\* Uploader.UploadFile up to the loop of camput
UploadFile(p, permanode, hasStat) ==
  /\ udCam.pc = "idle"
  /\ udOps < MaxUploads
  /\ udOps' = udOps + 1
  /\ udDl' = NoDl
  /\ IF hasStat /\ p.regular
       THEN /\ \E pf \in {"none", "write", "plan", "claim"} : UploadDirect(p, permanode, pf)
            /\ UNCHANGED udCam
     ELSE IF Len(p.s) <= 0
       THEN /\ udUp' = [NoUp EXCEPT !.via = "UploadFileExt", !.res = "err",
                                    !.name = p.name, !.s = p.s]
            /\ UNCHANGED <<udStore, udCam>>
     ELSE /\ udUp' = [NoUp EXCEPT !.via = "UploadFileExt", !.name = p.name, !.s = p.s]
          /\ udCam' = [NoCam EXCEPT !.pc = "loop", !.permanode = permanode, !.path = p]
          /\ UNCHANGED udStore
  /\ UNCHANGED exceptUD

\* what one run of the put tool stores and prints: "good" is the file blob
\* with its parts, "bad" a file blob whose parts are empty, "norefs" an
\* output without a blob ref
CliContent(p, cli) ==
  IF ~p.regular THEN DirBlob(p.name)
  ELSE IF cli = "good" THEN FileBlob(p.name, Chunker(p.s))
  ELSE FileBlob(p.name, <<>>)

CliStored(p, permanode, cli) ==
  IF cli = "norefs" THEN {}
  ELSE {CliContent(p, cli)}
         \cup (IF p.regular THEN {ChunkBlob(Chunker(p.s)[i]) : i \in DOMAIN Chunker(p.s)}
               ELSE {})
         \cup (IF permanode THEN {PermaBlob(CliContent(p, cli))} ELSE {})

CliOutput(p, permanode, cli) ==
  IF cli = "norefs" THEN <<>>
  ELSE <<CliContent(p, cli)>>
         \o (IF permanode THEN <<PermaBlob(CliContent(p, cli))>> ELSE <<>>)

\* len(blb.ByteParts()) > 0 on the blob fetched back
HasByteParts(b) == b.parts # <<>>

\* what UploadFileExt returns from the refs and the error of camput
CamputReturn(refs, lastErr) ==
  [udUp EXCEPT !.res = IF lastErr = "nil" THEN "ok" ELSE "err",
               !.content = IF Len(refs) > 0 THEN refs[1] ELSE None,
               !.perma = IF Len(refs) > 1 THEN refs[2] ELSE None]

\* one pass of the loop in camput: the put tool runs (cli), its refs are
\* appended, the Downloader is made on the first pass (newDown), refs[0] is
\* fetched back (fetched) and its parts are looked at
CamputStep(cli, newDown, fetched) ==
  LET c == udCam
      out == IF cli = "err" THEN <<>> ELSE CliOutput(c.path, c.permanode, cli)
      all == c.refs \o out
      refs == SubSeq(all, 1, Min(Len(all), RefsRead))
      reached == cli # "err" /\ Len(refs) > 0 /\ (c.down \/ (c.i = 0 /\ newDown))
      verified == reached /\ fetched = "ok" /\ HasByteParts(refs[1])
      lastErr == IF cli = "err" THEN "cli"
                 ELSE IF reached /\ fetched = "ok" /\ ~HasByteParts(refs[1]) THEN "parts"
                 ELSE c.lastErr
      brk == /\ cli # "err"
             /\ \/ Len(refs) = 0
                \/ ~c.down /\ (c.i > 0 \/ ~newDown)
                \/ verified
  IN [refs |-> refs, lastErr |-> lastErr, brk |-> brk, out |-> out,
      verified |-> verified,
      down |-> c.down \/ (cli # "err" /\ Len(refs) > 0 /\ c.i = 0 /\ newDown)]

CamputAttempt ==
  /\ udCam.pc = "loop"
  /\ \E cli \in {"err", "good", "bad", "norefs"}, newDown \in BOOLEAN,
        fetched \in {"ok", "err", "unparsed"} :
       LET r == CamputStep(cli, newDown, fetched)
       IN /\ udStore' = IF cli = "err" THEN udStore
                        ELSE udStore \cup CliStored(udCam.path, udCam.permanode, cli)
          /\ udCam' = [udCam EXCEPT
                         !.pc = IF r.brk \/ udCam.i + 1 >= AttemptCeiling
                                THEN "return" ELSE "loop",
                         !.i = udCam.i + 1, !.refs = r.refs, !.lastErr = r.lastErr,
                         !.down = r.down, !.verified = r.verified, !.out = r.out]
  /\ UNCHANGED <<udUp, udDl, udOps>>
  /\ UNCHANGED exceptUD

\* return refs, lastErr of camput, and the lines of UploadFileExt after it
UploadFileExtReturn ==
  /\ udCam.pc = "return"
  /\ udUp' = CamputReturn(udCam.refs, udCam.lastErr)
  /\ udCam' = NoCam
  /\ UNCHANGED <<udStore, udDl, udOps>>
  /\ UNCHANGED exceptUD

\* one ref of Downloader.Start fetched directly; fault is what the store does
\* to this fetch
ItemFetch(R, contents, br, fault) ==
  IF fault = "other" THEN [err |-> "other", readOk |-> FALSE, data |-> <<>>]
  ELSE IF br \notin R THEN [err |-> "notfound", readOk |-> FALSE, data |-> <<>>]
  ELSE IF ~contents THEN [err |-> "nil", readOk |-> TRUE, data |-> RawBytes(br)]
  ELSE IF br.kind # "file" THEN [err |-> "other", readOk |-> FALSE, data |-> <<>>]
  ELSE IF fault = "chunk" THEN [err |-> "nil", readOk |-> FALSE, data |-> <<>>]
  ELSE [err |-> "nil", readOk |-> ReadAll(R, br).ok, data |-> ReadAll(R, br).data]

\* ItemResult that fetches the schema blob whatever contents says
ItemResultRaw(R, contents, br, fault, cli) ==
  LET d == ItemFetch(R, FALSE, br, fault)
  IN IF d.err = "nil"
       THEN [ret |-> "reader", readOk |-> d.readOk, data |-> d.data,
             fetchErr |-> "nil", spawned |-> FALSE]
     ELSE IF ~contents /\ d.err = "notfound"
       THEN [ret |-> "notfound", readOk |-> FALSE, data |-> <<>>,
             fetchErr |-> d.err, spawned |-> FALSE]
     ELSE IF cli = "fail"
       THEN [ret |-> "cli", readOk |-> FALSE, data |-> <<>>,
             fetchErr |-> d.err, spawned |-> TRUE]
     ELSE [ret |-> "reader", readOk |-> FALSE, data |-> <<>>,
           fetchErr |-> d.err, spawned |-> TRUE]

\* one pass of the loop of Downloader.Start: the direct fetch, the early
\* return for a missing ref when contents is false, else the get tool, whose
\* pipe is closed by Run before anything reads it
ItemResult(R, contents, br, fault, cli) ==
  LET d == ItemFetch(R, contents, br, fault)
  IN IF d.err = "nil"
       THEN [ret |-> "reader", readOk |-> d.readOk, data |-> d.data,
             fetchErr |-> "nil", spawned |-> FALSE]
     ELSE IF ~contents /\ d.err = "notfound"
       THEN [ret |-> "notfound", readOk |-> FALSE, data |-> <<>>,
             fetchErr |-> d.err, spawned |-> FALSE]
     ELSE IF cli = "fail"
       THEN [ret |-> "cli", readOk |-> FALSE, data |-> <<>>,
             fetchErr |-> d.err, spawned |-> TRUE]
     ELSE [ret |-> "reader", readOk |-> FALSE, data |-> <<>>,
           fetchErr |-> d.err, spawned |-> TRUE]

\* io.MultiReader over the readers rs read to its end or its first error
RECURSIVE MultiRead(_)
MultiRead(rs) ==
  IF rs = <<>> THEN [readOk |-> TRUE, data |-> <<>>]
  ELSE IF ~Head(rs).readOk THEN [readOk |-> FALSE, data |-> Head(rs).data]
  ELSE [readOk |-> MultiRead(Tail(rs)).readOk,
        data |-> Head(rs).data \o MultiRead(Tail(rs)).data]

\* Downloader.Start and the read of the reader it returns (one call is
\* followed after each upload)
Start(contents, items, faults, cli) ==
  /\ udCam.pc = "idle"
  /\ ~udDl.done
  /\ LET rs == [i \in DOMAIN items |->
                  ItemResult(udStore, contents, items[i], faults[i], cli)]
         bad == {i \in DOMAIN items : rs[i].ret # "reader"}
         last == IF bad # {} THEN CHOOSE i \in bad : \A j \in bad : i <= j
                 ELSE Len(items)
         dl == [done |-> TRUE, contents |-> contents, items |-> items,
                faulted |-> \E i \in DOMAIN faults : faults[i] # "none",
                err |-> "nil", readOk |-> FALSE, data |-> <<>>,
                trail |-> [i \in 1..last |->
                            [fetchErr |-> rs[i].fetchErr, spawned |-> rs[i].spawned]]]
     IN udDl' = IF bad # {} THEN [dl EXCEPT !.err = rs[last].ret]
                ELSE IF Len(items) = 0 THEN [dl EXCEPT !.err = "EOF"]
                ELSE [dl EXCEPT !.readOk = MultiRead(rs).readOk,
                                !.data = MultiRead(rs).data]
  /\ UNCHANGED <<udStore, udUp, udCam, udOps>>
  /\ UNCHANGED exceptUD

\* a ref no upload of this model produces
MissingRef == FileBlob("c", <<>>)
Faults == {"none", "other", "chunk"}


(***************************************************************************)
(* The gate of the Uploader: a buffered channel of GateCap elements.       *)
(***************************************************************************)

\* cap(u.gate): maxProcs
GateCap == 2
\* calls of entry points per behaviour
GtMaxCalls == 4
Procs == {"p1", "p2", "p3"}
EntryPoints == {"FromReader", "FromReaderInfo", "camput"}

IdleProc == [pc |-> "idle", ep |-> "FromReader", cancelled |-> FALSE, holds |-> FALSE,
             touched |-> "no", res |-> "none", cancelledBlocked |-> FALSE]

GTIdle ==
  /\ gtGate = 0
  /\ gtProc = [p \in Procs |-> IdleProc]
  /\ gtCalls = GtMaxCalls

\* NewUploader: gate: make(chan struct{}, maxProcs)
GTInit ==
  /\ gtGate = 0
  /\ gtProc = [p \in Procs |-> IdleProc]
  /\ gtCalls = 0

\* a goroutine calls an entry point with its own context
GateCall(p, ep) ==
  /\ gtProc[p].pc \in {"idle", "done"}
  /\ gtCalls < GtMaxCalls
  /\ gtCalls' = gtCalls + 1
  /\ gtProc' = [gtProc EXCEPT ![p] = [IdleProc EXCEPT !.pc = "start", !.ep = ep]]
  /\ UNCHANGED gtGate
  /\ UNCHANGED exceptGT

\* `if err := ctx.Err(); err != nil { return }` of FromReader and
\* FromReaderInfo; camput has no such test before its select
GateCtxErr(p) ==
  /\ gtProc[p].pc = "start"
  /\ gtProc' = [gtProc EXCEPT ![p] =
       IF @.ep # "camput" /\ @.cancelled
         THEN [@ EXCEPT !.pc = "done", !.res = "ctx"]
         ELSE [@ EXCEPT !.pc = "select"]]
  /\ UNCHANGED <<gtGate, gtCalls>>
  /\ UNCHANGED exceptGT

\* the select: the send on the gate can go when the channel has room, the
\* receive from ctx.Done() when the context is cancelled; with both ready
\* either is taken, with none the goroutine blocks
GateSelect(p) ==
  /\ gtProc[p].pc = "select"
  /\ \/ /\ gtGate < GateCap
        /\ gtGate' = gtGate + 1
        /\ gtProc' = [gtProc EXCEPT ![p].pc = "holding", ![p].holds = TRUE]
     \/ /\ gtProc[p].cancelled
        /\ gtProc' = [gtProc EXCEPT ![p].pc = "done", ![p].res = "ctx"]
        /\ UNCHANGED gtGate
     \/ /\ gtGate >= GateCap /\ ~gtProc[p].cancelled
        /\ gtProc' = [gtProc EXCEPT ![p].pc = "blocked"]
        /\ UNCHANGED gtGate
  /\ UNCHANGED gtCalls
  /\ UNCHANGED exceptGT

\* a cancellation that does not reach a goroutine blocked in the select
GateCancelUnheard(p) ==
  /\ ~gtProc[p].cancelled
  /\ gtProc[p].pc \notin {"idle", "done"}
  /\ gtProc' = [gtProc EXCEPT ![p].cancelled = TRUE,
                              ![p].cancelledBlocked = (gtProc[p].pc = "blocked")]
  /\ UNCHANGED <<gtGate, gtCalls>>
  /\ UNCHANGED exceptGT

\* the caller's context is cancelled: Done is closed, and a goroutine blocked
\* in the select is woken on that case
GateCancel(p) ==
  /\ ~gtProc[p].cancelled
  /\ gtProc[p].pc \notin {"idle", "done"}
  /\ gtProc' = [gtProc EXCEPT ![p].cancelled = TRUE,
                              ![p].cancelledBlocked = (gtProc[p].pc = "blocked"),
                              ![p].pc = IF gtProc[p].pc = "blocked" THEN "woken"
                                        ELSE gtProc[p].pc]
  /\ UNCHANGED <<gtGate, gtCalls>>
  /\ UNCHANGED exceptGT

\* `case <-ctx.Done(): return blob.Ref{}, ctx.Err()`
GateCtxReturn(p) ==
  /\ gtProc[p].pc = "woken"
  /\ gtProc' = [gtProc EXCEPT ![p].pc = "done", ![p].res = "ctx"]
  /\ UNCHANGED <<gtGate, gtCalls>>
  /\ UNCHANGED exceptGT

\* the body behind the gate: schema.WriteFileFromReader, schema.WriteFileMap,
\* or the loop of camput that starts the put tool
GateWork(p) ==
  /\ gtProc[p].pc = "holding"
  /\ gtProc' = [gtProc EXCEPT ![p].pc = "working",
                              ![p].touched = IF gtProc[p].holds THEN "held" ELSE "unheld"]
  /\ UNCHANGED <<gtGate, gtCalls>>
  /\ UNCHANGED exceptGT

\* the deferred receive from the gate, run on the callers' state mid: a
\* sender q blocked on the full channel gets the room at once; with q = p no
\* sender is blocked and the channel loses an element
Release(mid, p, q) ==
  IF q # p
    THEN /\ mid[q].pc = "blocked"
         /\ gtProc' = [mid EXCEPT ![p].holds = FALSE,
                                  ![q].pc = "holding", ![q].holds = TRUE]
         /\ UNCHANGED gtGate
    ELSE /\ \A r \in Procs : mid[r].pc # "blocked"
         /\ gtProc' = [mid EXCEPT ![p].holds = FALSE]
         /\ gtGate' = gtGate - 1

\* a return that gives the permit back only when the body succeeded
GateReturnLeaky(p, res) ==
  /\ gtProc[p].pc = "working"
  /\ res = "ctx" => gtProc[p].cancelled
  /\ IF res = "ok"
       THEN \E q \in Procs :
              Release([gtProc EXCEPT ![p].pc = "done", ![p].res = res], p, q)
       ELSE /\ gtProc' = [gtProc EXCEPT ![p].pc = "done", ![p].res = res]
            /\ UNCHANGED gtGate
  /\ UNCHANGED gtCalls
  /\ UNCHANGED exceptGT

\* the body returns (a ref, an error of the store or of the tool, or the
\* context's error) and the deferred function gives the permit back
GateReturn(p, res) ==
  /\ gtProc[p].pc = "working"
  /\ res = "ctx" => gtProc[p].cancelled
  /\ \E q \in Procs :
       Release([gtProc EXCEPT ![p].pc = "done", ![p].res = res], p, q)
  /\ UNCHANGED gtCalls
  /\ UNCHANGED exceptGT


(***************************************************************************)
(* RefToBase64 and Base64ToRef.  The encodings are computed on a reduced   *)
(* scale that keeps their shape: a byte has 4 bits, a base64 character 3   *)
(* (so 3 bytes make 4 characters, 1 and 2 trailing bytes are padded with   *)
(* "==" and "="), a hex digit 2.                                           *)
(***************************************************************************)

\* digest lengths of the two hashes: both longer than the hash's name, one
\* leaves 2 bytes for the last base64 group (as sha1's 20), one 1 (sha224's 28)
Sha1Len == 5
Sha224Len == 7
\* len(b) and cap(t) of Base64ToRef
DecodeBufLen == 64
ArgCap == 128
\* what the capacity of []byte(arg) may exceed its length by
CapSlack == 3

B64Alphabet == <<"A", "B", "a", "b", "0", "1", "-", "_">>
HexAlphabet == <<"0", "1", "a", "b">>
\* the values digest bytes are drawn from
DigestBytes == {0, 6, 15}

sha1 == <<"s", "h", "a", "1">>
sha224 == <<"s", "h", "a", "2", "2", "4">>
HashLen(name) == IF name = sha1 THEN Sha1Len ELSE IF name = sha224 THEN Sha224Len ELSE 0

InvalidRef == [hash |-> <<>>, digest |-> <<>>]
ValidRefs == [hash : {sha1}, digest : [1..Sha1Len -> DigestBytes]]
               \cup [hash : {sha224}, digest : [1..Sha224Len -> DigestBytes]]
\* blob.Ref.Valid
Valid(br) == br # InvalidRef

\* bytes.ToLower / the upper case of a hash name
ToLowerChar(c) == IF c = "S" THEN "s" ELSE IF c = "H" THEN "h" ELSE IF c = "A" THEN "a" ELSE c
ToLower(cs) == [i \in DOMAIN cs |-> ToLowerChar(cs[i])]
ToUpperChar(c) == IF c = "s" THEN "S" ELSE IF c = "h" THEN "H" ELSE IF c = "a" THEN "A" ELSE c

\* bytes.IndexByte: 0 when c does not occur (the code's -1)
IndexByte(cs, c) ==
  IF \E i \in DOMAIN cs : cs[i] = c
    THEN CHOOSE i \in DOMAIN cs : cs[i] = c /\ \A j \in 1..(i - 1) : cs[j] # c
    ELSE 0

B64Char(v) == B64Alphabet[v + 1]
B64Val(c) == CHOOSE v \in 0..7 : B64Alphabet[v + 1] = c
IsB64(c) == \E v \in 0..7 : B64Alphabet[v + 1] = c

\* base64.URLEncoding: encoder with padding
RECURSIVE B64Encode(_)
B64Encode(bs) ==
  IF bs = <<>> THEN <<>>
  ELSE IF Len(bs) = 1
    THEN LET v == bs[1] * 4
         IN <<B64Char(v \div 8), B64Char(v % 8), "=", "=">>
  ELSE IF Len(bs) = 2
    THEN LET v == (bs[1] * 16 + bs[2]) * 2
         IN <<B64Char(v \div 64), B64Char((v \div 8) % 8), B64Char(v % 8), "=">>
  ELSE LET v == bs[1] * 256 + bs[2] * 16 + bs[3]
       IN <<B64Char(v \div 512), B64Char((v \div 64) % 8),
            B64Char((v \div 8) % 8), B64Char(v % 8)>>
            \o B64Encode(SubSeq(bs, 4, Len(bs)))

\* base64.URLEncoding.Decode: padding is required, the bits behind the last
\* byte of a padded group are not looked at
RECURSIVE B64Decode(_)
B64Decode(cs) ==
  IF cs = <<>> THEN [ok |-> TRUE, bytes |-> <<>>]
  ELSE IF Len(cs) < 4 \/ ~IsB64(cs[1]) \/ ~IsB64(cs[2]) THEN [ok |-> FALSE, bytes |-> <<>>]
  ELSE IF IsB64(cs[3]) /\ IsB64(cs[4])
    THEN LET v == B64Val(cs[1]) * 512 + B64Val(cs[2]) * 64 + B64Val(cs[3]) * 8 + B64Val(cs[4])
             r == B64Decode(SubSeq(cs, 5, Len(cs)))
         IN [ok |-> r.ok, bytes |-> <<v \div 256, (v \div 16) % 16, v % 16>> \o r.bytes]
  ELSE IF Len(cs) = 4 /\ cs[3] = "=" /\ cs[4] = "="
    THEN [ok |-> TRUE, bytes |-> <<(B64Val(cs[1]) * 8 + B64Val(cs[2])) \div 4>>]
  ELSE IF Len(cs) = 4 /\ IsB64(cs[3]) /\ cs[4] = "="
    THEN LET v == (B64Val(cs[1]) * 64 + B64Val(cs[2]) * 8 + B64Val(cs[3])) \div 2
         IN [ok |-> TRUE, bytes |-> <<v \div 16, v % 16>>]
  ELSE [ok |-> FALSE, bytes |-> <<>>]

\* hex.Encode
RECURSIVE HexEncode(_)
HexEncode(bs) ==
  IF bs = <<>> THEN <<>>
  ELSE <<HexAlphabet[(bs[1] \div 4) + 1], HexAlphabet[(bs[1] % 4) + 1]>>
         \o HexEncode(Tail(bs))

IsHex(c) == \E v \in 0..3 : HexAlphabet[v + 1] = c
HexVal(c) == CHOOSE v \in 0..3 : HexAlphabet[v + 1] = c

\* blob.Parse: <hash>-<hex>, the hash supported and the hex of its length
BlobParse(cs) ==
  LET i == IndexByte(cs, "-")
      name == SubSeq(cs, 1, i - 1)
      hx == SubSeq(cs, i + 1, Len(cs))
  IN IF i = 0 \/ HashLen(name) = 0 \/ Len(hx) # 2 * HashLen(name)
          \/ \E j \in DOMAIN hx : ~IsHex(hx[j])
       THEN [ok |-> FALSE, ref |-> InvalidRef]
     ELSE [ok |-> TRUE,
           ref |-> [hash |-> name,
                    digest |-> [j \in 1..HashLen(name) |->
                                  HexVal(hx[2 * j - 1]) * 4 + HexVal(hx[2 * j])]]]

\* blob.Ref.MarshalBinary: <hash>-<raw digest>, and RefToBase64 over it
RefToBase64(br) ==
  IF ~Valid(br) THEN <<>>
  ELSE br.hash \o <<"-">> \o B64Encode(br.digest)

\* Base64ToRef with the hash name left as it came
Base64ToRefNoLower(arg, cap) ==
  LET t == SubSeq(arg, 1, Min(Len(arg), ArgCap))
      i == IndexByte(t, "-")
      dec == B64Decode(SubSeq(t, i + 1, Len(t)))
      n == Len(dec.bytes)
      grown == IF 2 * n - cap + n + 1 > 0 THEN cap + (2 * n - cap + n + 1) ELSE cap
      parsed == BlobParse(SubSeq(t, 1, i) \o HexEncode(dec.bytes))
  IN IF i = 0 THEN [err |-> "nodash", ref |-> InvalidRef]
     ELSE IF dec.ok /\ n > DecodeBufLen THEN [err |-> "panic", ref |-> InvalidRef]
     ELSE IF ~dec.ok THEN [err |-> "decode", ref |-> InvalidRef]
     ELSE IF grown - i < 2 * n THEN [err |-> "panic", ref |-> InvalidRef]
     ELSE IF ~parsed.ok THEN [err |-> "parse", ref |-> InvalidRef]
     ELSE [err |-> "nil", ref |-> parsed.ref]

\* Base64ToRef; cap is the capacity of []byte(arg[:i]), which t is resliced to
Base64ToRef(arg, cap) ==
  LET t == SubSeq(arg, 1, Min(Len(arg), ArgCap))
      i == IndexByte(t, "-")
      dec == B64Decode(SubSeq(t, i + 1, Len(t)))
      n == Len(dec.bytes)
      grown == IF 2 * n - cap + n + 1 > 0 THEN cap + (2 * n - cap + n + 1) ELSE cap
      parsed == BlobParse(ToLower(SubSeq(t, 1, i)) \o HexEncode(dec.bytes))
  IN IF i = 0 THEN [err |-> "nodash", ref |-> InvalidRef]
     ELSE IF dec.ok /\ n > DecodeBufLen THEN [err |-> "panic", ref |-> InvalidRef]
     ELSE IF ~dec.ok THEN [err |-> "decode", ref |-> InvalidRef]
     ELSE IF grown - i < 2 * n THEN [err |-> "panic", ref |-> InvalidRef]
     ELSE IF ~parsed.ok THEN [err |-> "parse", ref |-> InvalidRef]
     ELSE [err |-> "nil", ref |-> parsed.ref]

\* the texts handed to Base64ToRef: the short form of a ref, the same with
\* an upper-case letter in the hash name, with a bit set behind the last byte,
\* and without the dash
ShortForm(r) == r.hash \o <<"-">> \o B64Encode(r.digest)
MixedCase(r) == <<r.hash[1], ToUpperChar(r.hash[2])>> \o SubSeq(ShortForm(r), 3, Len(ShortForm(r)))
LastChar(r) == Len(r.hash) + 1 + Len(B64Encode(r.digest)) - (IF Len(r.digest) % 3 = 1 THEN 2 ELSE 1)
TrailingBit(r) ==
  IF Len(r.digest) % 3 = 0 THEN ShortForm(r)
  ELSE [ShortForm(r) EXCEPT ![LastChar(r)] = B64Char(B64Val(ShortForm(r)[LastChar(r)]) + 1)]
NoDash(r) == r.hash \o B64Encode(r.digest)
TextOf(r, form) ==
  IF form = "short" THEN ShortForm(r)
  ELSE IF form = "mixedcase" THEN MixedCase(r)
  ELSE IF form = "trailingbit" THEN TrailingBit(r)
  ELSE NoDash(r)

B64Idle ==
  /\ b64In = [kind |-> "none", of |-> InvalidRef, form |-> "none", text |-> <<>>]
  /\ b64Pc = "idle"
  /\ b64Text = <<>>
  /\ b64Ref = InvalidRef
  /\ b64Err = "nil"
  /\ b64Hist = <<>>

\* a ref is handed to RefToBase64, or a text to Base64ToRef
B64Init ==
  /\ \/ \E r \in ValidRefs \cup {InvalidRef} :
          /\ b64In = [kind |-> "ref", of |-> r, form |-> "ref", text |-> <<>>]
          /\ b64Pc = "ref" /\ b64Ref = r /\ b64Text = <<>>
     \/ \E r \in ValidRefs, form \in {"short", "mixedcase", "trailingbit", "nodash"} :
          /\ b64In = [kind |-> "text", of |-> r, form |-> form, text |-> TextOf(r, form)]
          /\ b64Pc = "text" /\ b64Text = TextOf(r, form) /\ b64Ref = InvalidRef
  /\ b64Err = "nil"
  /\ b64Hist = <<>>

\* calls chained per behaviour
B64MaxCalls == 2

CallRefToBase64 ==
  /\ b64Pc = "ref"
  /\ b64Text' = RefToBase64(b64Ref)
  /\ b64Hist' = Append(b64Hist, "RefToBase64")
  /\ b64Pc' = IF Len(b64Hist') >= B64MaxCalls THEN "done" ELSE "text"
  /\ UNCHANGED <<b64In, b64Ref, b64Err>>
  /\ UNCHANGED exceptB64

CallBase64ToRef ==
  /\ b64Pc = "text"
  /\ \E slack \in {0, CapSlack} :
       LET res == Base64ToRef(b64Text, Min(Len(b64Text), ArgCap) + slack)
       IN /\ b64Ref' = res.ref
          /\ b64Err' = res.err
          /\ b64Hist' = Append(b64Hist, "Base64ToRef")
          /\ b64Pc' = IF res.err # "nil" \/ Len(b64Hist') >= B64MaxCalls
                        THEN "done" ELSE "ref"
  /\ UNCHANGED <<b64In, b64Text>>
  /\ UNCHANGED exceptB64

(***************************************************************************)
(* UploadFileLazyAttr, UploadReaderInfoLazyAttr, UploadFileExtLazyAttr,    *)
(* NewPermanode and SetPermanodeAttrs.  An attribute name is the sequence  *)
(* of its parts, so that a prefix can be told.                             *)
(***************************************************************************)

\* calls of a LazyAttr entry point per behaviour
LaMaxCalls == 2

camliContent == <<"camli", "Content">>
AttrKeys == {<<"a">>, <<"x", "camli">>, camliContent, <<"camli", "Root">>}
\* strings.HasPrefix
HasPrefix(k, prefix) == Len(k) >= 1 /\ k[1] = prefix
\* the attrs a caller may pass: a value for some of the keys
AttrMaps == UNION {[K -> {"v"}] : K \in SUBSET AttrKeys}

\* filterAttrs
filterAttrs(skipPrefix, attrs) ==
  [k \in {j \in DOMAIN attrs : ~HasPrefix(j, skipPrefix)} |-> attrs[k]]

NoLa == [entry |-> "none", client |-> FALSE, attrs |-> <<>>]
NoLaRes == [done |-> FALSE, content |-> "", perma |-> FALSE, err |-> "nil", attrErr |-> FALSE]

LAIdle ==
  /\ laIn = NoLa
  /\ laPc = "idle"
  /\ laTodo = <<>>
  /\ laSet = {}
  /\ laStored = FALSE
  /\ laRes = NoLaRes
  /\ laCalls = LaMaxCalls

LAInit ==
  /\ laIn = NoLa
  /\ laPc = "idle"
  /\ laTodo = <<>>
  /\ laSet = {}
  /\ laStored = FALSE
  /\ laRes = NoLaRes
  /\ laCalls = 0

\* UploadReaderInfoLazyAttr, and UploadFileLazyAttr on its direct branch: the
\* content is uploaded, then a permanode is asked for when an attribute is
\* left after the filter; client tells whether u.Client is set (else the
\* Uploader of a file:// server, which has the dummy Signer)
LazyAttrDirect(entry, client, attrs, uploaded) ==
  /\ laPc \in {"idle", "done"}
  /\ laCalls < LaMaxCalls
  /\ laCalls' = laCalls + 1
  /\ laIn' = [entry |-> entry, client |-> client, attrs |-> attrs]
  /\ laSet' = {}
  /\ laStored' = FALSE
  /\ IF ~uploaded
       THEN /\ laRes' = [NoLaRes EXCEPT !.done = TRUE, !.err = "upload"]
            /\ laPc' = "done" /\ laTodo' = <<>>
     ELSE IF DOMAIN filterAttrs("camli", attrs) = {}
       THEN /\ laRes' = [NoLaRes EXCEPT !.done = TRUE, !.content = "C"]
            /\ laPc' = "done" /\ laTodo' = <<>>
     ELSE /\ laRes' = [NoLaRes EXCEPT !.content = "C"]
          /\ laPc' = "NewPermanode"
          /\ laTodo' = [k \in DOMAIN filterAttrs("camli", attrs) \cup {camliContent} |->
                          IF k = camliContent THEN "C" ELSE filterAttrs("camli", attrs)[k]]
  /\ UNCHANGED exceptLA

\* UploadFileExtLazyAttr: the put tool uploads the file and, asked to, makes
\* the permanode with its camliContent; the attributes are set on the
\* permanode the tool printed
LazyAttrExt(client, attrs, tool) ==
  /\ laPc \in {"idle", "done"}
  /\ laCalls < LaMaxCalls
  /\ laCalls' = laCalls + 1
  /\ laIn' = [entry |-> "UploadFileExtLazyAttr", client |-> client, attrs |-> attrs]
  /\ IF ~tool
       THEN /\ laRes' = [NoLaRes EXCEPT !.done = TRUE, !.err = "tool"]
            /\ laPc' = "done" /\ laTodo' = <<>> /\ laSet' = {} /\ laStored' = FALSE
     ELSE IF DOMAIN filterAttrs("camli", attrs) = {}
       THEN /\ laRes' = [NoLaRes EXCEPT !.done = TRUE, !.content = "C"]
            /\ laPc' = "done" /\ laTodo' = <<>> /\ laSet' = {} /\ laStored' = FALSE
     ELSE /\ laRes' = [NoLaRes EXCEPT !.content = "C", !.perma = TRUE]
          /\ laPc' = "SetPermanodeAttrs"
          /\ laTodo' = filterAttrs("camli", attrs)
          /\ laSet' = {<<camliContent, "C">>}
          /\ laStored' = TRUE
  /\ UNCHANGED exceptLA

\* NewPermanode up to its call of SetPermanodeAttrs: with a Client the
\* permanode is uploaded; without one it is only signed
NewPermanode(ok) ==
  /\ laPc = "NewPermanode"
  /\ IF ~ok
       THEN /\ laRes' = [laRes EXCEPT !.done = TRUE, !.attrErr = TRUE]
            /\ laPc' = "done" /\ laTodo' = <<>>
            /\ UNCHANGED laStored
     ELSE IF laIn.client
       THEN /\ laStored' = TRUE
            /\ laRes' = [laRes EXCEPT !.perma = TRUE]
            /\ laPc' = "SetPermanodeAttrs"
            /\ UNCHANGED laTodo
     ELSE /\ laRes' = [laRes EXCEPT !.done = TRUE, !.perma = TRUE]
          /\ laPc' = "done" /\ laTodo' = <<>>
          /\ UNCHANGED laStored
  /\ UNCHANGED <<laIn, laSet, laCalls>>
  /\ UNCHANGED exceptLA

\* one pass of the loop of SetPermanodeAttrs, over the map in any order; the
\* first error ends the loop and is only logged by the LazyAttr entry points
setAttr(k, ok) ==
  /\ laPc = "SetPermanodeAttrs"
  /\ k \in DOMAIN laTodo
  /\ IF ok
       THEN /\ laSet' = laSet \cup {<<k, laTodo[k]>>}
            /\ laTodo' = [j \in DOMAIN laTodo \ {k} |-> laTodo[j]]
            /\ IF DOMAIN laTodo = {k}
                 THEN laRes' = [laRes EXCEPT !.done = TRUE] /\ laPc' = "done"
                 ELSE UNCHANGED <<laRes, laPc>>
       ELSE /\ laRes' = [laRes EXCEPT !.done = TRUE, !.attrErr = TRUE]
            /\ laPc' = "done"
            /\ UNCHANGED <<laSet, laTodo>>
  /\ UNCHANGED <<laIn, laStored, laCalls>>
  /\ UNCHANGED exceptLA

(***************************************************************************)
(* The HTTP handler: handle.  One request is served per step; what the     *)
(* temporary directory, the stores and the tools do to it is chosen with   *)
(* the request.                                                            *)
(***************************************************************************)

\* requests served per behaviour
HtMaxCalls == 1

\* the refs asked for: one whose file is in the store, one that is not
RefPresent == [hash |-> sha1, digest |-> [i \in 1..Sha1Len |-> 0]]
RefAbsent == [hash |-> sha1, digest |-> [i \in 1..Sha1Len |-> 15]]
HtStore == {ChunkBlob(<<1>>), File1}
\* the blob a ref addresses
BlobOf(br) == IF br = RefPresent THEN File1 ELSE MissingRef

\* blob.Ref.String
HexForm(br) == br.hash \o <<"-">> \o HexEncode(br.digest)

\* r.URL.Path[1:] of the GET requests
Paths400 == {<<>>, <<"x">>, <<"s", "h", "a", "1", "-", "=">>}
GetPaths == {HexForm(RefPresent), ShortForm(RefPresent), MixedCase(RefPresent),
             HexForm(RefAbsent), ShortForm(RefAbsent)} \cup Paths400

\* camutil.ParseBlobNames on one name: blob.Parse, then Base64ToRef
ParseBlobNames(name) ==
  IF BlobParse(name).ok THEN [err |-> "nil", ref |-> BlobParse(name).ref]
  ELSE Base64ToRef(name, Len(name))

GetRequests ==
  [method : {"GET"}, path : GetPaths, raw : BOOLEAN, mimeType : {"", "text/plain"},
   fault : Faults, cli : {"ok", "fail"}, downloader : BOOLEAN]

\* the POST requests: the body's shape (multipart or direct), whether the
\* multipart body parses and the files are saved, the number of files, an
\* empty file, the query flags, an a.<name> attribute (plain or starting
\* with camli); and what happens on upload: the branch UploadFileLazyAttr
\* takes, the store's and the permanode's outcome
PostRequests ==
  [method : {"POST"}, multipart : BOOLEAN, parses : BOOLEAN, saved : BOOLEAN,
   files : 0..2, empty : BOOLEAN,
   permanode : BOOLEAN, noperma : BOOLEAN, short : BOOLEAN, attr : {"none", "a.x", "a.camliX"},
   mkdir : BOOLEAN, direct : BOOLEAN, uploaded : BOOLEAN, permaOk : BOOLEAN]

OtherRequests == [method : {"PUT", "DELETE", "HEAD"}]

NoHttpResp == [status |-> 0, body |-> <<>>, store |-> FALSE, cause |-> "none"]
HTTPError(code, cause, store) == [status |-> code, body |-> <<"error">>, store |-> store, cause |-> cause]

\* handle, case "GET"
HandleGet(r) ==
  LET parsed == ParseBlobNames(r.path)
      contents == ~r.raw
      item == ItemResult(HtStore, contents, BlobOf(parsed.ref), r.fault, r.cli)
      missing == BlobOf(parsed.ref) \notin HtStore
  IN IF parsed.err # "nil" THEN HTTPError(400, "MalformedRef", FALSE)
     ELSE IF ~r.downloader THEN HTTPError(500, "other", FALSE)
     ELSE IF item.ret # "reader"
       THEN HTTPError(500, IF missing THEN "NotFound" ELSE "other", TRUE)
     ELSE IF ~item.readOk
       THEN HTTPError(500, IF missing THEN "NotFound" ELSE "other", TRUE)
     ELSE [status |-> 200, body |-> item.data, store |-> TRUE, cause |-> "none"]

\* the attrs of the POST handler: none with noperma=1, else the a.<name>
\* parameters whose name does not start with camli
PostAttrs(r) ==
  IF r.noperma \/ r.attr # "a.x" THEN <<>> ELSE (<<"x">> :> "v")

\* UploadFileLazyAttr as the handler sees it: its error and the two refs
UploadOutcome(r) ==
  IF ~r.direct /\ r.empty /\ r.files = 1 THEN [err |-> "FileEmpty", content |-> "", perma |-> FALSE]
  ELSE IF ~r.uploaded THEN [err |-> "other", content |-> "", perma |-> FALSE]
  ELSE [err |-> "nil", content |-> "C",
        perma |-> DOMAIN filterAttrs("camli", PostAttrs(r)) # {} /\ r.permaOk]

\* handle, case "POST"
HandlePost(r) ==
  LET up == UploadOutcome(r)
      nfiles == IF r.multipart THEN r.files ELSE Min(r.files, 1)
  IN IF ~r.mkdir THEN HTTPError(500, "other", FALSE)
     ELSE IF r.multipart /\ ~r.parses THEN HTTPError(400, "multipart", FALSE)
     ELSE IF ~r.saved THEN HTTPError(500, "other", FALSE)
     ELSE IF nfiles = 0 THEN HTTPError(400, "nofiles", FALSE)
     ELSE IF up.err # "nil" THEN HTTPError(500, up.err, TRUE)
     ELSE [status |-> 201,
           body |-> IF up.perma THEN <<up.content, "P">> ELSE <<up.content>>,
           store |-> TRUE, cause |-> "none"]

\* handle
handle(r) ==
  /\ htCalls < HtMaxCalls
  /\ htCalls' = htCalls + 1
  /\ htReq' = r
  /\ htResp' = IF r.method = "GET" THEN HandleGet(r)
               ELSE IF r.method = "POST" THEN HandlePost(r)
               ELSE HTTPError(405, "method", FALSE)
  /\ UNCHANGED exceptHT

HTIdle ==
  /\ htReq = [method |-> "none"]
  /\ htResp = NoHttpResp
  /\ htCalls = HtMaxCalls

HTInit ==
  /\ htReq = [method |-> "none"]
  /\ htResp = NoHttpResp
  /\ htCalls = 0

(***************************************************************************)
(* MIMETypeFromReader (camutil/mime.go)                                    *)
(***************************************************************************)
\* io.LimitReader(r, 1024)
SniffLen == 1024
\* the longest stream is this much longer than the sniffed prefix
MmOver == 6
StreamLens == {0, 1, SniffLen - 1, SniffLen, SniffLen + 1, SniffLen + MmOver}
\* a reader that never fails
NoFault == -1
\* the position at which the underlying reader fails
ErrAts == {NoFault, 0, 500, SniffLen, SniffLen + 2}
\* what one Read of the underlying reader may deliver at most
ReadSizes == {400, 512, 2048}
\* the first byte of a stream that mimemagic recognises
Magic == 37
FirstBytes == {Magic, 1}

\* the bytes of the stream behind the reader
Stream(in) == [i \in 1..in.n |-> IF i = 1 THEN in.first ELSE i % 256]

\* mimemagic.Match: a function of the sniffed bytes, with a fallback type
Match(data) ==
  IF data # <<>> /\ data[1] = Magic THEN "text/plain" ELSE "application/octet-stream"

\* one Read of the underlying reader into a slice of k bytes at position pos
UnderRead(in, pos, k) ==
  IF in.errAt # NoFault /\ pos >= in.errAt THEN [data |-> <<>>, err |-> "fault"]
  ELSE IF pos >= in.n THEN [data |-> <<>>, err |-> "EOF"]
  ELSE LET stop == IF in.errAt # NoFault THEN Min(in.n, in.errAt) ELSE in.n
           m == Min(k, stop - pos)
       IN [data |-> SubSeq(Stream(in), pos + 1, pos + m), err |-> "none"]

\* the bytes of the stream that can be read before the end or the failure
Readable(in) ==
  IF in.errAt # NoFault /\ in.errAt <= in.n THEN in.errAt ELSE in.n

NoMmIn == [n |-> 0, first |-> 1, errAt |-> NoFault]
NoMmRet == [mime |-> "", prefix |-> <<>>, tail |-> "none", consumed |-> 0]

MMIdle ==
  /\ mmIn = NoMmIn /\ mmPc = "idle" /\ mmPos = 0 /\ mmBuf = <<>> /\ mmLimit = 0
  /\ mmRet = NoMmRet /\ mmOff = 0 /\ mmOut = <<>> /\ mmOutErr = "none"

MMInit == MMIdle

\* the reader dropped the sniffed bytes instead of replaying them
SniffedReaderTailOnly(buf, tail, consumed) ==
  [mime |-> Match(buf), prefix |-> <<>>, tail |-> tail, consumed |-> consumed]
\* return mime, io.MultiReader(bytes.NewReader(buf.Bytes()), r or errReader{err})
SniffedReader(buf, tail, consumed) ==
  [mime |-> Match(buf), prefix |-> buf, tail |-> tail, consumed |-> consumed]

\* MIMETypeFromReader(r) is entered: buf is empty, the LimitedReader has N = 1024
MimeCall(n, first, errAt) ==
  /\ mmPc = "idle"
  /\ mmIn' = [n |-> n, first |-> first, errAt |-> errAt]
  /\ mmPc' = "copy"
  /\ mmPos' = 0 /\ mmBuf' = <<>> /\ mmLimit' = SniffLen
  /\ UNCHANGED <<mmRet, mmOff, mmOut, mmOutErr>>
  /\ UNCHANGED exceptMM

\* one round of io.Copy(&buf, io.LimitReader(r, 1024)): the LimitedReader says
\* EOF once N is used up, else it reads at most N bytes of r; the copy ends on
\* EOF (err == nil) or on an error, and the call returns
MimeCopy(k) ==
  /\ mmPc = "copy"
  /\ LET rd == UnderRead(mmIn, mmPos, Min(k, mmLimit))
     IN IF mmLimit <= 0 \/ rd.err = "EOF"
        THEN /\ mmRet' = SniffedReader(mmBuf, "r", mmPos)
             /\ mmPc' = "returned"
             /\ UNCHANGED <<mmPos, mmBuf, mmLimit>>
        ELSE IF rd.err = "fault"
        THEN /\ mmRet' = SniffedReader(mmBuf, "errReader", mmPos)
             /\ mmPc' = "returned"
             /\ UNCHANGED <<mmPos, mmBuf, mmLimit>>
        ELSE /\ mmBuf' = mmBuf \o rd.data
             /\ mmPos' = mmPos + Len(rd.data)
             /\ mmLimit' = mmLimit - Len(rd.data)
             /\ UNCHANGED <<mmRet, mmPc>>
  /\ UNCHANGED <<mmIn, mmOff, mmOut, mmOutErr>>
  /\ UNCHANGED exceptMM

\* the caller reads k bytes from the returned reader: the MultiReader hands
\* out the buffered prefix first, then reads r (or the errReader)
MimeOutRead(k) ==
  /\ mmPc = "returned"
  /\ IF mmOff < Len(mmRet.prefix)
     THEN LET m == Min(k, Len(mmRet.prefix) - mmOff)
          IN /\ mmOut' = mmOut \o SubSeq(mmRet.prefix, mmOff + 1, mmOff + m)
             /\ mmOff' = mmOff + m
             /\ UNCHANGED <<mmPos, mmOutErr, mmPc>>
     ELSE IF mmRet.tail = "errReader"
     THEN /\ mmOutErr' = "fault" /\ mmPc' = "done"
          /\ UNCHANGED <<mmOut, mmOff, mmPos>>
     ELSE LET rd == UnderRead(mmIn, mmPos, k)
          IN IF rd.err = "none"
             THEN /\ mmOut' = mmOut \o rd.data
                  /\ mmPos' = mmPos + Len(rd.data)
                  /\ UNCHANGED <<mmOff, mmOutErr, mmPc>>
             ELSE /\ mmOutErr' = rd.err /\ mmPc' = "done"
                  /\ UNCHANGED <<mmOut, mmOff, mmPos>>
  /\ UNCHANGED <<mmIn, mmBuf, mmLimit, mmRet>>
  /\ UNCHANGED exceptMM

(***************************************************************************)
(* respWriter and the GET download of handle (main.go), with the MimeCache *)
(***************************************************************************)
RwMaxCalls == 2
OctetStream == "application/octet-stream"
\* the mimeType parameter of the request; "" when the caller gave none
MimeParams == {"", "text/plain", OctetStream}
\* the text http.Error writes into the body, apart from the bytes of the blob
ErrorText == 256
IsBodyByte(b) == b < ErrorText

\* what MIMETypeFromReader returns for a reader: at most 1024 bytes buffered,
\* then the reader itself, or the error that stopped the sniffing
Sniffed(in) ==
  LET consumed == Min(SniffLen, Readable(in))
  IN SniffedReader(SubSeq(Stream(in), 1, consumed),
                   IF in.errAt # NoFault /\ in.errAt <= in.n /\ in.errAt < SniffLen
                   THEN "errReader" ELSE "r",
                   consumed)

\* MimeCache.Get and MimeCache.Set for the one key in use
MimeGet(c) == c
MimeSet(c, mime) == IF mime = "" THEN c ELSE mime

\* the http.ResponseWriter of net/http: status 0 until the header is sent
NoRwResp ==
  [status |-> 0, header |-> "", contentType |-> "", body |-> <<>>, commits |-> 0,
   superfluous |-> 0, buffered |-> 0, ended |-> FALSE]
\* WriteHeader sends the status line and the headers once; a later call is ignored
WriteHeader(resp, code, buffered, ended) ==
  IF resp.status # 0 THEN [resp EXCEPT !.superfluous = @ + 1]
  ELSE [resp EXCEPT !.status = code, !.contentType = resp.header,
                    !.commits = @ + 1, !.buffered = buffered, !.ended = ended]
\* Write sends the header with status 200 first when it was not sent yet
RespWrite(resp, p, buffered, ended) ==
  LET r1 == IF resp.status = 0 THEN WriteHeader(resp, 200, buffered, ended) ELSE resp
  IN [r1 EXCEPT !.body = @ \o p]
\* http.Error(w, msg, code)
HttpError(resp, code, buffered, ended) ==
  LET r1 == [resp EXCEPT !.header = "text/plain; charset=utf-8"]
  IN RespWrite(WriteHeader(r1, code, buffered, ended), <<ErrorText>>, buffered, ended)

NoRespWriter ==
  [name |-> "", okMime |-> "", okMime0 |-> "", buf |-> <<>>, headerWritten |-> FALSE,
   taken |-> <<>>, asked |-> 0, ret |-> 0]
\* newRespWriter(w, name, okMime)
newRespWriter(name, okMime, c) ==
  LET m == MimeGet(c)
      ok == IF name # "" /\ okMime \in {"", OctetStream} /\ m # "" THEN m ELSE okMime
  IN [NoRespWriter EXCEPT !.name = name, !.okMime = ok, !.okMime0 = ok]

\* Write reported all the bytes it handed on, the buffered ones included
ReportedAll(n, i) == n
\* return n - i, err: n bytes went to the ResponseWriter, i of them were
\* in the buffer before this Write
Reported(n, i) == n - i

\* respWriter.Write(p): the state of the writer (asked is len(p), ret the count
\* it returns), of the response and of the cache after it
Write(w, resp, c, p, ended) ==
  LET buffering == ~w.headerWritten /\ w.okMime \in {"", OctetStream}
      buf1 == w.buf \o p
      i == IF buffering THEN Len(w.buf) ELSE 0
      w0 == [w EXCEPT !.taken = @ \o p, !.asked = Len(p),
                      !.ret = IF buffering /\ Len(buf1) < SniffLen THEN Len(p)
                              ELSE Reported(Len(IF buffering THEN buf1 ELSE p), i)]
  IN IF buffering /\ Len(buf1) < SniffLen
     THEN [w |-> [w0 EXCEPT !.buf = buf1], resp |-> resp, cache |-> c]
     ELSE LET ok == IF buffering THEN Match(buf1) ELSE w.okMime
              c1 == IF buffering /\ w.name # "" /\ ok # "" THEN MimeSet(c, ok) ELSE c
              out == IF buffering THEN buf1 ELSE p
              held == IF buffering THEN Len(buf1) ELSE 0
              r1 == IF w.headerWritten THEN resp
                    ELSE WriteHeader(IF ok # "" THEN [resp EXCEPT !.header = ok] ELSE resp,
                                     200, held, ended)
          IN [w |-> [w0 EXCEPT !.okMime = ok, !.buf = <<>>, !.headerWritten = TRUE],
              resp |-> RespWrite(r1, out, held, ended),
              cache |-> c1]

\* Close returned without writing the bytes it still holds
CloseNoFlush(w, resp) == resp
\* respWriter.Close()
Close(w, resp) ==
  IF Len(w.buf) > 0 THEN RespWrite(resp, w.buf, Len(w.buf), TRUE) ELSE resp

NoRwReq ==
  [n |-> 0, first |-> 1, errAt |-> NoFault, mimeType |-> "", raw |-> FALSE,
   cached |-> ""]
NoRwSrc == [prefix |-> <<>>, off |-> 0, tail |-> "none", pos |-> 0, sawEnd |-> FALSE]

RWIdle ==
  /\ rwReq = NoRwReq /\ rwPc = "idle" /\ rwSrc = NoRwSrc /\ rwW = NoRespWriter
  /\ rwResp = NoRwResp /\ rwCache = "" /\ rwCalls = 0

RWInit == RWIdle

\* handle, case "GET", for one well-formed ref that Downloader.Start can open:
\* up to io.Copy(rw, rc)
RwGet(n, first, errAt, mimeType, raw) ==
  /\ rwPc \in {"idle", "done"}
  /\ rwCalls < RwMaxCalls
  /\ rwCalls' = rwCalls + 1
  /\ LET in == [n |-> n, first |-> first, errAt |-> errAt, mimeType |-> mimeType,
                raw |-> raw, cached |-> rwCache]
         content == ~raw
         nm == IF content /\ mimeType = "" THEN "key" ELSE ""
         okMime == IF ~content THEN "application/json"
                   ELSE IF mimeType = "" THEN MimeGet(rwCache) ELSE mimeType
         sn == Sniffed(in)
     IN /\ rwReq' = in
        /\ rwSrc' = IF okMime = ""
                    THEN [prefix |-> sn.prefix, off |-> 0, tail |-> sn.tail,
                          pos |-> sn.consumed, sawEnd |-> sn.consumed < SniffLen]
                    ELSE [NoRwSrc EXCEPT !.tail = "r"]
        /\ rwW' = newRespWriter(nm, IF okMime = "" THEN sn.mime ELSE okMime, rwCache)
  /\ rwResp' = NoRwResp
  /\ rwPc' = "copy"
  /\ UNCHANGED rwCache
  /\ UNCHANGED exceptRW

\* one round of io.Copy(rw, rc): a Read of rc, then rw.Write of what was read;
\* at the end of the stream handle returns, at an error it sends http.Error
\* first; the deferred rw.Close() runs in both cases
RwCopy(k) ==
  /\ rwPc = "copy"
  /\ IF rwSrc.off < Len(rwSrc.prefix)
     THEN LET m == Min(k, Len(rwSrc.prefix) - rwSrc.off)
              st == Write(rwW, rwResp, rwCache,
                          SubSeq(rwSrc.prefix, rwSrc.off + 1, rwSrc.off + m), rwSrc.sawEnd)
          IN /\ rwSrc' = [rwSrc EXCEPT !.off = @ + m]
             /\ rwW' = st.w /\ rwResp' = st.resp /\ rwCache' = st.cache
             /\ UNCHANGED rwPc
     ELSE LET rd == IF rwSrc.tail = "errReader" THEN [data |-> <<>>, err |-> "fault"]
                    ELSE UnderRead(rwReq, rwSrc.pos, k)
          IN IF rd.err = "none"
             THEN LET st == Write(rwW, rwResp, rwCache, rd.data, rwSrc.sawEnd)
                  IN /\ rwSrc' = [rwSrc EXCEPT !.pos = @ + Len(rd.data)]
                     /\ rwW' = st.w /\ rwResp' = st.resp /\ rwCache' = st.cache
                     /\ UNCHANGED rwPc
             ELSE /\ rwResp' = Close(rwW,
                                 IF rd.err = "fault"
                                 THEN HttpError(rwResp, 500, Len(rwW.buf), TRUE)
                                 ELSE rwResp)
                  /\ rwSrc' = [rwSrc EXCEPT !.sawEnd = TRUE]
                  /\ rwPc' = "done"
                  /\ UNCHANGED <<rwW, rwCache>>
  /\ UNCHANGED <<rwReq, rwCalls>>
  /\ UNCHANGED exceptRW

(***************************************************************************)
(* PerCache.Close and PerCache.onCacheEvict (percache/percache.go): the    *)
(* mutex pc.mu, the goroutine of the cache that runs the eviction callback *)
(* and the unbuffered stop channel that cache.Close sends on.              *)
(***************************************************************************)
\* the keys received, the number of keys the policy keeps, the length of setBuf
ClMaxKey == 3
ClCap == 1
ClBufCap == 2
ClKeys == 1..ClMaxKey

CLIdle ==
  /\ clMu = "free" /\ clClose = "idle" /\ clProc = "select" /\ clVictim = 0
  /\ clBuf = <<>> /\ clCache = {} /\ clRows = {}

CLInit == CLIdle

\* ReceiveBlob through the trace hook: the "/"-row is written, OnReceive
\* calls pc.cache.Set, which queues the key for the goroutine of the cache
ClReceive(k) ==
  /\ clClose \in {"idle", "lock"}
  /\ k \notin clRows
  /\ Len(clBuf) < ClBufCap
  /\ clRows' = clRows \cup {k}
  /\ clBuf' = Append(clBuf, k)
  /\ UNCHANGED <<clMu, clClose, clProc, clVictim, clCache>>
  /\ UNCHANGED exceptCL

\* the goroutine of the cache takes a key from setBuf; when the policy is
\* full it evicts a key and calls OnEvict, that is pc.onCacheEvict, itself
ClProcessItem ==
  /\ clProc = "select"
  /\ clBuf # <<>>
  /\ clBuf' = Tail(clBuf)
  /\ IF Cardinality(clCache) < ClCap
       THEN /\ clCache' = clCache \cup {Head(clBuf)}
            /\ UNCHANGED <<clProc, clVictim>>
       ELSE \E v \in clCache :
              /\ clCache' = (clCache \ {v}) \cup {Head(clBuf)}
              /\ clVictim' = v
              /\ clProc' = "wantMu"
  /\ UNCHANGED <<clMu, clClose, clRows>>
  /\ UNCHANGED exceptCL

\* onCacheEvict: pc.mu.Lock()
EvictLock ==
  /\ clProc = "wantMu"
  /\ clMu = "free"
  /\ clMu' = "evict"
  /\ clProc' = "inEvict"
  /\ UNCHANGED <<clClose, clVictim, clBuf, clCache, clRows>>
  /\ UNCHANGED exceptCL

\* onCacheEvict: the Delete of the "/"-row, and the deferred pc.mu.Unlock()
EvictDelete ==
  /\ clProc = "inEvict"
  /\ clRows' = clRows \ {clVictim}
  /\ clVictim' = 0
  /\ clMu' = IF clMu = "evict" THEN "free" ELSE clMu
  /\ clProc' = "select"
  /\ UNCHANGED <<clClose, clBuf, clCache>>
  /\ UNCHANGED exceptCL

\* Close is called
CloseCall ==
  /\ clClose = "idle"
  /\ clClose' = "lock"
  /\ UNCHANGED <<clMu, clProc, clVictim, clBuf, clCache, clRows>>
  /\ UNCHANGED exceptCL

\* Close: pc.mu.Lock()
CloseLock ==
  /\ clClose = "lock"
  /\ clMu = "free"
  /\ clMu' = "close"
  /\ clClose' = "stop"
  /\ UNCHANGED <<clProc, clVictim, clBuf, clCache, clRows>>
  /\ UNCHANGED exceptCL

\* Close: pc.cache.Close() hands the stop signal to the goroutine of the
\* cache, which takes it only in its select; then pc.db.Close(), the Close
\* of the storage and the deferred pc.mu.Unlock()
CloseStop ==
  /\ clClose = "stop"
  /\ clProc = "select"
  /\ clProc' = "returned"
  /\ clClose' = "done"
  /\ clMu' = "free"
  /\ UNCHANGED <<clVictim, clBuf, clCache, clRows>>
  /\ UNCHANGED exceptCL

(***************************************************************************)
(* Storage.EnumerateBlobs (blobserver/badger): refs are numbers, their     *)
(* order is the order of the keys                                          *)
(***************************************************************************)
EnMaxKey == 4
EnMaxLimit == 2
EnMaxCalls == 2
EnKeys == 1..EnMaxKey
\* the context is never done
NoCancel == -1

\* the keys under the prefix in the order the iterator visits them
RECURSIVE KeysInOrder(_)
KeysInOrder(S) ==
  IF S = {} THEN <<>>
  ELSE LET m == CHOOSE x \in S : \A y \in S : x <= y
       IN <<m>> \o KeysInOrder(S \ {m})

\* the iterator is the index of its item in ks; it.Valid()
ItValid(ks, i) == i <= Len(ks)
\* it.Seek(key): the first item whose key is not less than key
ItSeek(ks, key) ==
  IF \E j \in DOMAIN ks : ks[j] >= key
  THEN CHOOSE j \in DOMAIN ks : ks[j] >= key /\ \A l \in DOMAIN ks : ks[l] >= key => j <= l
  ELSE Len(ks) + 1

\* where the loop starts: it.Rewind(), and for a non-empty after on a valid
\* iterator it.Seek(after) followed by it.Next() when the Seek found an item
EnumStart(ks, after) ==
  IF after # 0 /\ ItValid(ks, 1)
  THEN LET i == ItSeek(ks, after)
       IN IF ItValid(ks, i) THEN i + 1 ELSE i
  ELSE 1

\* the loop: one send per item until the iterator ends, limit sends were
\* made, or the context is done (before send number cancelAt + 1)
RECURSIVE EnumLoop(_, _, _, _, _)
EnumLoop(ks, i, n, limit, cancelAt) ==
  IF ~ItValid(ks, i) THEN [sent |-> <<>>, ret |-> "nil"]
  ELSE IF cancelAt = n THEN [sent |-> <<>>, ret |-> "ctxErr"]
  ELSE IF limit # 0 /\ n + 1 >= limit THEN [sent |-> <<ks[i]>>, ret |-> "nil"]
  ELSE LET rest == EnumLoop(ks, i + 1, n + 1, limit, cancelAt)
       IN [sent |-> <<ks[i]>> \o rest.sent, ret |-> rest.ret]

ENIdle ==
  /\ enStore = {} /\ enCall = [after |-> 0, limit |-> 0, cancelAt |-> NoCancel]
  /\ enDest = <<>> /\ enClosed = 0 /\ enRet = "none" /\ enCalls = 0

ENInit == ENIdle

\* a blob is received: its row is written under the prefix
EnReceive(k) ==
  /\ k \notin enStore
  /\ enStore' = enStore \cup {k}
  /\ UNCHANGED <<enCall, enDest, enClosed, enRet, enCalls>>
  /\ UNCHANGED exceptEN

\* EnumerateBlobs(ctx, dest, after, limit) with a receiver that takes every
\* send; the deferred close(dest) runs when the function of View returns
EnumerateBlobs(after, limit, cancelAt) ==
  /\ enCalls < EnMaxCalls
  /\ enCalls' = enCalls + 1
  /\ LET ks == KeysInOrder(enStore)
         r == EnumLoop(ks, EnumStart(ks, after), 0, limit, cancelAt)
     IN /\ enDest' = r.sent
        /\ enRet' = r.ret
  /\ enCall' = [after |-> after, limit |-> limit, cancelAt |-> cancelAt]
  /\ enClosed' = 1
  /\ UNCHANGED enStore
  /\ UNCHANGED exceptEN

(***************************************************************************)
(* limited.Storage (blobserver/limited/limited.go): refs are numbers, 0 is *)
(* the empty string                                                        *)
(***************************************************************************)
LmSize == 2
LmMaxKey == 4
LmKeys == 1..LmMaxKey

\* NewStorage(sto, size) over an empty storage: LRUEvictPolicy returns a copy
\* of the lruPolicy that its eviction callback has captured
LMIdle == lmStore = {} /\ lmLru = <<>> /\ lmCaptured = 0 /\ lmPolicy = 0

LMInit == LMIdle

\* q without the key k
Without(q, k) == SelectSeq(q, LAMBDA x : x # k)

\* lp.lru.Add(key, null): a key that is there becomes the newest; a new key
\* is added and, beyond size keys, the oldest is removed and handed to the
\* callback, which sets lastEvicted of the captured lruPolicy
LruAdd(q, k) ==
  IF \E i \in DOMAIN q : q[i] = k
    THEN [lru |-> Append(Without(q, k), k), evicted |-> FALSE, key |-> 0]
  ELSE IF Len(q) + 1 > LmSize
    THEN [lru |-> Append(Tail(q), k), evicted |-> TRUE, key |-> Head(q)]
  ELSE [lru |-> Append(q, k), evicted |-> FALSE, key |-> 0]

\* lruPolicy.Put: "" when Add evicted nothing, else lp.lastEvicted of the
\* receiver, which is the copy that was returned
Put(added, lastEvicted) == IF ~added.evicted THEN 0 ELSE lastEvicted

\* Storage.ReceiveBlob: the blob goes to the underlying storage, then what
\* the policy reports as evicted is removed from it
LmReceiveBlob(k) ==
  LET a == LruAdd(lmLru, k)
      evict == Put(a, lmPolicy)
  IN /\ lmLru' = a.lru
     /\ lmCaptured' = IF a.evicted THEN a.key ELSE lmCaptured
     /\ lmStore' = (lmStore \cup {k}) \ (IF evict # 0 THEN {evict} ELSE {})
     /\ UNCHANGED lmPolicy
     /\ UNCHANGED exceptLM

\* Storage.Fetch: evictPolicy.Get makes the key the newest
LmFetch(k) ==
  /\ k \in lmStore
  /\ lmLru' = IF \E i \in DOMAIN lmLru : lmLru[i] = k
              THEN Append(Without(lmLru, k), k) ELSE lmLru
  /\ UNCHANGED <<lmStore, lmCaptured, lmPolicy>>
  /\ UNCHANGED exceptLM

\* Storage.RemoveBlobs
LmRemoveBlobs(k) ==
  /\ k \in lmStore
  /\ lmLru' = Without(lmLru, k)
  /\ lmStore' = lmStore \ {k}
  /\ UNCHANGED <<lmCaptured, lmPolicy>>
  /\ UNCHANGED exceptLM

(***************************************************************************)
(* smartFetch, case "static-set" (camutil/camget.go): members are numbered *)
(* in member order, the workers are alike and only counted                 *)
(***************************************************************************)
numWorkers == 10
\* the largest static-set has this many members more than there are workers
SfOver == 1
MemberCounts == {0, 1, 3, numWorkers + SfOver}
\* the members whose smartFetch fails
FailSets(m) == {F \in SUBSET (1..m) : F \subseteq {2, m}}

SFIdle ==
  /\ sfIn = [m |-> 0, fails |-> {}] /\ sfPc = "idle" /\ sfSent = 0 /\ sfTaken = 0
  /\ sfDone = {} /\ sfGot = 0 /\ sfRet = 0

SFInit == SFIdle

\* the members a worker is fetching
InFlight == (1..sfTaken) \ sfDone
\* workc := make(chan work, len(members))
WorkcCap(m) == m

\* the errc the collecting loop reads after it has read got of them: from the last member down
CollectReversed(m, got) == m - got
\* for _, errc := range errcs: in member order
Collect(m, got) == got + 1

\* smartFetch reaches the static-set: workc is made, the workers are started
SfCall(m, fails) ==
  /\ sfPc = "idle"
  /\ sfIn' = [m |-> m, fails |-> fails]
  /\ sfPc' = IF m = 0 THEN "collect" ELSE "dispatch"
  /\ UNCHANGED <<sfSent, sfTaken, sfDone, sfGot, sfRet>>
  /\ UNCHANGED exceptSF

\* workc <- work{mref, errc} for the next member
SfDispatch ==
  /\ sfPc = "dispatch"
  /\ sfSent - sfTaken < WorkcCap(sfIn.m)
  /\ sfSent' = sfSent + 1
  /\ UNCHANGED sfTaken
  /\ sfPc' = IF sfSent + 1 = sfIn.m THEN "collect" ELSE "dispatch"
  /\ UNCHANGED <<sfIn, sfDone, sfGot, sfRet>>
  /\ UNCHANGED exceptSF

\* a worker that is not fetching receives the next work item; after the
\* deferred close(workc) the items left in the channel are still received
SfTake ==
  /\ sfTaken < sfSent
  /\ Cardinality(InFlight) < numWorkers
  /\ sfTaken' = sfTaken + 1
  /\ UNCHANGED <<sfIn, sfPc, sfSent, sfDone, sfGot, sfRet>>
  /\ UNCHANGED exceptSF

\* wi.errc <- smartFetch(ctx, src, targ, wi.br): errc has room for the one result
SfFetched(j) ==
  /\ j \in InFlight
  /\ sfDone' = sfDone \cup {j}
  /\ UNCHANGED <<sfIn, sfPc, sfSent, sfTaken, sfGot, sfRet>>
  /\ UNCHANGED exceptSF

\* one pass of the collecting loop, or the return nil after it
SfCollect ==
  /\ sfPc = "collect"
  /\ IF sfGot = sfIn.m
       THEN /\ sfPc' = "returned" /\ sfRet' = 0
            /\ UNCHANGED sfGot
       ELSE LET j == Collect(sfIn.m, sfGot)
            IN /\ j \in sfDone
               /\ IF j \in sfIn.fails
                    THEN /\ sfPc' = "returned" /\ sfRet' = j
                         /\ UNCHANGED sfGot
                    ELSE /\ sfGot' = sfGot + 1
                         /\ UNCHANGED <<sfPc, sfRet>>
  /\ UNCHANGED <<sfIn, sfSent, sfTaken, sfDone>>
  /\ UNCHANGED exceptSF

(***************************************************************************)
(* trace.Storage (unnamed/part_003): Fetch and EnumerateBlobs with their   *)
(* hooks set; a ref is a number, a SizedRef a record                       *)
(***************************************************************************)
TrMaxRefs == 3
TrMaxSize == 2
TrErrs == {"nil", "err"}
\* the SizedRefs the wrapped storage enumerates: refs 1..n in order
Enumerated(n) == [i \in 1..n |-> [ref |-> i, size |-> 1]]

TRIdle ==
  /\ trIn = [n |-> 0, err |-> "nil"] /\ trMain = "idle" /\ trSent = 0
  /\ trGo = "none" /\ trDest = <<>> /\ trSized = <<>> /\ trChClosed = 0
  /\ trDestClosed = 0 /\ trHooks = <<>>

TRInit == TRIdle

\* Fetch: the wrapped Fetch, then OnFetch with the ref, its size and the error
TrFetch(br, size, err) ==
  /\ trMain = "idle" /\ trHooks = <<>>
  /\ trHooks' = <<[op |-> "fetch", list |-> <<[ref |-> br, size |-> size]>>,
                   err |-> err, after |-> TRUE]>>
  /\ trMain' = "done"
  /\ UNCHANGED <<trIn, trSent, trGo, trDest, trSized, trChClosed, trDestClosed>>
  /\ UNCHANGED exceptTR

\* EnumerateBlobs with OnEnumerate set: ch is made, the goroutine started,
\* the wrapped EnumerateBlobs entered
TrEnumerate(n, err) ==
  /\ trMain = "idle" /\ trHooks = <<>>
  /\ trIn' = [n |-> n, err |-> err]
  /\ trMain' = "enum" /\ trGo' = "recv"
  /\ UNCHANGED <<trSent, trDest, trSized, trChClosed, trDestClosed, trHooks>>
  /\ UNCHANGED exceptTR

\* the wrapped storage sends the next ref on the unbuffered ch and the
\* goroutine receives it (for sr := range ch)
TrSend ==
  /\ trMain = "enum" /\ trGo = "recv" /\ trSent < trIn.n
  /\ trSent' = trSent + 1 /\ trGo' = "fwd"
  /\ UNCHANGED <<trIn, trMain, trDest, trSized, trChClosed, trDestClosed, trHooks>>
  /\ UNCHANGED exceptTR

\* dest <- sr
TrForward ==
  /\ trGo = "fwd"
  /\ trDest' = Append(trDest, Enumerated(trIn.n)[trSent])
  /\ trGo' = "append"
  /\ UNCHANGED <<trIn, trMain, trSent, trSized, trChClosed, trDestClosed, trHooks>>
  /\ UNCHANGED exceptTR

\* sized = append(sized, sr)
TrAppend ==
  /\ trGo = "append"
  /\ trSized' = Append(trSized, Enumerated(trIn.n)[trSent])
  /\ trGo' = "recv"
  /\ UNCHANGED <<trIn, trMain, trSent, trDest, trChClosed, trDestClosed, trHooks>>
  /\ UNCHANGED exceptTR

\* the wrapped EnumerateBlobs closes the channel it was given and returns
\* (with an error it may stop before the last ref)
TrEnumReturn ==
  /\ trMain = "enum"
  /\ trSent = trIn.n \/ trIn.err = "err"
  /\ trChClosed' = trChClosed + 1
  /\ trMain' = "hook"
  /\ UNCHANGED <<trIn, trSent, trGo, trDest, trSized, trDestClosed, trHooks>>
  /\ UNCHANGED exceptTR

\* sto.OnEnumerate(sized, err); return err: sized is read while the
\* goroutine may still be running
TrOnEnumerate ==
  /\ trMain = "hook"
  /\ trHooks' = Append(trHooks, [op |-> "enumerate", list |-> trSized,
                                 err |-> trIn.err, after |-> TRUE])
  /\ trMain' = "done"
  /\ UNCHANGED <<trIn, trSent, trGo, trDest, trSized, trChClosed, trDestClosed>>
  /\ UNCHANGED exceptTR

\* the range over the closed ch ends and the deferred close(ch) runs:
\* closing a closed channel panics
TrGoExit ==
  /\ trGo = "recv" /\ trChClosed > 0
  /\ trChClosed' = trChClosed + 1
  /\ trGo' = IF trChClosed > 0 THEN "panic" ELSE "exited"
  /\ UNCHANGED <<trIn, trMain, trSent, trDest, trSized, trDestClosed, trHooks>>
  /\ UNCHANGED exceptTR

(***************************************************************************)
(* Downloader.Start, the fall back to the get tool (unnamed/part_016):     *)
(* c.StdoutPipe(), c.Run(), then the reader is handed to the caller        *)
(***************************************************************************)
\* room in the pipe of the operating system, in bytes of this model
DcPipeCap == 2
DcMaxOut == 4
Outputs == UNION {[1..n -> 0..1] : n \in 0..DcMaxOut}
NoRead == [done |-> FALSE, ok |-> FALSE, data |-> <<>>]

DCIdle ==
  /\ dcOut = [bytes |-> <<>>, exit0 |-> TRUE] /\ dcWritten = 0 /\ dcPipe = <<>>
  /\ dcChild = "none" /\ dcStart = "idle" /\ dcClosed = FALSE /\ dcGot = NoRead

DCInit == DCIdle

\* rc, err = c.StdoutPipe(); c.Run() starts the child
DcSpawn(bytes, exit0) ==
  /\ dcStart = "idle" /\ dcChild = "none"
  /\ dcOut' = [bytes |-> bytes, exit0 |-> exit0]
  /\ dcChild' = "running" /\ dcStart' = "run"
  /\ UNCHANGED <<dcWritten, dcPipe, dcClosed, dcGot>>
  /\ UNCHANGED exceptDC

\* the child writes one byte to its stdout: it waits while the pipe is full
DcChildWrite ==
  /\ dcChild = "running" /\ dcWritten < Len(dcOut.bytes)
  /\ Len(dcPipe) < DcPipeCap
  /\ dcPipe' = Append(dcPipe, dcOut.bytes[dcWritten + 1])
  /\ dcWritten' = dcWritten + 1
  /\ UNCHANGED <<dcOut, dcChild, dcStart, dcClosed, dcGot>>
  /\ UNCHANGED exceptDC

\* the child has written everything and exits
DcChildExit ==
  /\ dcChild = "running" /\ dcWritten = Len(dcOut.bytes)
  /\ dcChild' = "exited"
  /\ UNCHANGED <<dcOut, dcWritten, dcPipe, dcStart, dcClosed, dcGot>>
  /\ UNCHANGED exceptDC

\* c.Run() returns: Wait has seen the child exit and has closed the read
\* side of the pipe; Start returns the error of Run or the reader rc
DcRunReturn ==
  /\ dcStart = "run" /\ dcChild = "exited"
  /\ dcClosed' = TRUE
  /\ dcStart' = IF dcOut.exit0 THEN "reader" ELSE "error"
  /\ UNCHANGED <<dcOut, dcWritten, dcPipe, dcChild, dcGot>>
  /\ UNCHANGED exceptDC

\* the caller reads the reader Start returned to its end
DcRead ==
  /\ dcStart = "reader" /\ ~dcGot.done
  /\ dcGot' = IF dcClosed THEN [done |-> TRUE, ok |-> FALSE, data |-> <<>>]
              ELSE [done |-> TRUE, ok |-> TRUE, data |-> dcPipe]
  /\ UNCHANGED <<dcOut, dcWritten, dcPipe, dcChild, dcStart, dcClosed>>
  /\ UNCHANGED exceptDC

(***************************************************************************)
(* The specifications: one component runs, the others stay idle            *)
(***************************************************************************)
InitUD == UDInit /\ PCIdle /\ RTIdle /\ GTIdle /\ B64Idle /\ LAIdle /\ HTIdle /\ MMIdle /\ RWIdle /\ CLIdle /\ ENIdle /\ LMIdle /\ SFIdle /\ TRIdle /\ DCIdle

NextUD ==
  \/ \E n \in NodeIDs, s \in Values : FromReader(n, s)
  \/ \E n \in NodeIDs, s \in Values : FromReaderInfo(n, s)
  \/ \E p \in Paths, permanode \in BOOLEAN, hasStat \in BOOLEAN :
       UploadFile(p, permanode, hasStat)
  \/ CamputAttempt
  \/ UploadFileExtReturn
  \/ \E contents \in BOOLEAN, items \in SeqsUpTo(udStore \cup {MissingRef}, MaxItems) :
       \E faults \in [DOMAIN items -> Faults], cli \in {"ok", "fail"} :
         Start(contents, items, faults, cli)

SpecUD == InitUD /\ [][NextUD]_vars

InitGT == GTInit /\ PCIdle /\ RTIdle /\ UDIdle /\ B64Idle /\ LAIdle /\ HTIdle /\ MMIdle /\ RWIdle /\ CLIdle /\ ENIdle /\ LMIdle /\ SFIdle /\ TRIdle /\ DCIdle

NextGT ==
  \/ \E p \in Procs, ep \in EntryPoints : GateCall(p, ep)
  \/ \E p \in Procs : GateCtxErr(p)
  \/ \E p \in Procs : GateSelect(p)
  \/ \E p \in Procs : GateCancel(p)
  \/ \E p \in Procs : GateCtxReturn(p)
  \/ \E p \in Procs : GateWork(p)
  \/ \E p \in Procs, res \in {"ok", "err", "ctx"} : GateReturn(p, res)

SpecGT == InitGT /\ [][NextGT]_vars

InitB64 == B64Init /\ PCIdle /\ RTIdle /\ UDIdle /\ GTIdle /\ LAIdle /\ HTIdle /\ MMIdle /\ RWIdle /\ CLIdle /\ ENIdle /\ LMIdle /\ SFIdle /\ TRIdle /\ DCIdle

NextB64 == CallRefToBase64 \/ CallBase64ToRef

SpecB64 == InitB64 /\ [][NextB64]_vars

InitLA == LAInit /\ PCIdle /\ RTIdle /\ UDIdle /\ GTIdle /\ B64Idle /\ HTIdle /\ MMIdle /\ RWIdle /\ CLIdle /\ ENIdle /\ LMIdle /\ SFIdle /\ TRIdle /\ DCIdle

NextLA ==
  \/ \E entry \in {"UploadReaderInfoLazyAttr", "UploadFileLazyAttr"}, client \in BOOLEAN,
        attrs \in AttrMaps, uploaded \in BOOLEAN :
       LazyAttrDirect(entry, client, attrs, uploaded)
  \/ \E client \in BOOLEAN, attrs \in AttrMaps, tool \in BOOLEAN :
       LazyAttrExt(client, attrs, tool)
  \/ \E ok \in BOOLEAN : NewPermanode(ok)
  \/ \E k \in AttrKeys \cup {camliContent}, ok \in BOOLEAN : setAttr(k, ok)

SpecLA == InitLA /\ [][NextLA]_vars

InitHT == HTInit /\ PCIdle /\ RTIdle /\ UDIdle /\ GTIdle /\ B64Idle /\ LAIdle /\ MMIdle /\ RWIdle /\ CLIdle /\ ENIdle /\ LMIdle /\ SFIdle /\ TRIdle /\ DCIdle

NextHT == \E r \in GetRequests \cup PostRequests \cup OtherRequests : handle(r)

SpecHT == InitHT /\ [][NextHT]_vars

InitMM == MMInit /\ PCIdle /\ RTIdle /\ UDIdle /\ GTIdle /\ B64Idle /\ LAIdle /\ HTIdle /\ RWIdle /\ CLIdle /\ ENIdle /\ LMIdle /\ SFIdle /\ TRIdle /\ DCIdle

NextMM ==
  \/ \E n \in StreamLens, first \in FirstBytes, errAt \in ErrAts :
       MimeCall(n, first, errAt)
  \/ \E k \in ReadSizes : MimeCopy(k)
  \/ \E k \in ReadSizes : MimeOutRead(k)

SpecMM == InitMM /\ [][NextMM]_vars

InitRW == RWInit /\ PCIdle /\ RTIdle /\ UDIdle /\ GTIdle /\ B64Idle /\ LAIdle /\ HTIdle /\ MMIdle /\ CLIdle /\ ENIdle /\ LMIdle /\ SFIdle /\ TRIdle /\ DCIdle

NextRW ==
  \/ \E n \in StreamLens, first \in FirstBytes, errAt \in ErrAts,
        mimeType \in MimeParams, raw \in BOOLEAN :
       RwGet(n, first, errAt, mimeType, raw)
  \/ \E k \in ReadSizes : RwCopy(k)

SpecRW == InitRW /\ [][NextRW]_vars

InitCL == CLInit /\ PCIdle /\ RTIdle /\ UDIdle /\ GTIdle /\ B64Idle /\ LAIdle /\ HTIdle /\ MMIdle /\ RWIdle /\ ENIdle /\ LMIdle /\ SFIdle /\ TRIdle /\ DCIdle

NextCL ==
  \/ \E k \in ClKeys : ClReceive(k)
  \/ ClProcessItem
  \/ EvictLock
  \/ EvictDelete
  \/ CloseCall
  \/ CloseLock
  \/ CloseStop

SpecCL == InitCL /\ [][NextCL]_vars

InitEN == ENInit /\ PCIdle /\ RTIdle /\ UDIdle /\ GTIdle /\ B64Idle /\ LAIdle /\ HTIdle /\ MMIdle /\ RWIdle /\ CLIdle /\ LMIdle /\ SFIdle /\ TRIdle /\ DCIdle

NextEN ==
  \/ \E k \in EnKeys : EnReceive(k)
  \/ \E after \in 0..EnMaxKey, limit \in 0..EnMaxLimit,
        cancelAt \in {NoCancel} \cup 0..EnMaxLimit :
       EnumerateBlobs(after, limit, cancelAt)

SpecEN == InitEN /\ [][NextEN]_vars

InitLM == LMInit /\ PCIdle /\ RTIdle /\ UDIdle /\ GTIdle /\ B64Idle /\ LAIdle /\ HTIdle /\ MMIdle /\ RWIdle /\ CLIdle /\ ENIdle /\ SFIdle /\ TRIdle /\ DCIdle

NextLM ==
  \/ \E k \in LmKeys : LmReceiveBlob(k)
  \/ \E k \in LmKeys : LmFetch(k)
  \/ \E k \in LmKeys : LmRemoveBlobs(k)

SpecLM == InitLM /\ [][NextLM]_vars

InitSF == SFInit /\ PCIdle /\ RTIdle /\ UDIdle /\ GTIdle /\ B64Idle /\ LAIdle /\ HTIdle /\ MMIdle /\ RWIdle /\ CLIdle /\ ENIdle /\ LMIdle /\ TRIdle /\ DCIdle

NextSF ==
  \/ \E m \in MemberCounts : \E fails \in FailSets(m) : SfCall(m, fails)
  \/ SfDispatch
  \/ SfTake
  \/ \E j \in 1..(numWorkers + SfOver) : SfFetched(j)
  \/ SfCollect

SpecSF == InitSF /\ [][NextSF]_vars

InitTR == TRInit /\ PCIdle /\ RTIdle /\ UDIdle /\ GTIdle /\ B64Idle /\ LAIdle /\ HTIdle /\ MMIdle /\ RWIdle /\ CLIdle /\ ENIdle /\ LMIdle /\ SFIdle /\ DCIdle

NextTR ==
  \/ \E br \in 1..TrMaxRefs : \E size \in 0..TrMaxSize : \E err \in TrErrs :
       TrFetch(br, size, err)
  \/ \E n \in 0..TrMaxRefs : \E err \in TrErrs : TrEnumerate(n, err)
  \/ TrSend
  \/ TrForward
  \/ TrAppend
  \/ TrEnumReturn
  \/ TrOnEnumerate
  \/ TrGoExit

SpecTR == InitTR /\ [][NextTR]_vars

InitDC == DCInit /\ PCIdle /\ RTIdle /\ UDIdle /\ GTIdle /\ B64Idle /\ LAIdle /\ HTIdle /\ MMIdle /\ RWIdle /\ CLIdle /\ ENIdle /\ LMIdle /\ SFIdle /\ TRIdle

NextDC ==
  \/ \E bytes \in Outputs : \E exit0 \in BOOLEAN : DcSpawn(bytes, exit0)
  \/ DcChildWrite
  \/ DcChildExit
  \/ DcRunReturn
  \/ DcRead

SpecDC == InitDC /\ [][NextDC]_vars

InitPC == PCInit /\ RTIdle /\ UDIdle /\ GTIdle /\ B64Idle /\ LAIdle /\ HTIdle /\ MMIdle /\ RWIdle /\ CLIdle /\ ENIdle /\ LMIdle /\ SFIdle /\ TRIdle /\ DCIdle
InitRT == RTInit /\ PCIdle /\ UDIdle /\ GTIdle /\ B64Idle /\ LAIdle /\ HTIdle /\ MMIdle /\ RWIdle /\ CLIdle /\ ENIdle /\ LMIdle /\ SFIdle /\ TRIdle /\ DCIdle

NextRT == Enter \/ Attempt \/ IterNext \/ Cancel

SpecRT == InitRT /\ [][NextRT]_vars

NextPC ==
  \/ \E k \in NodeIDs, v \in Values : PutStart(k, v)
  \/ PutChunk
  \/ PutFile
  \/ PutMap
  \/ PutFail
  \/ \E k \in NodeIDs : Get(k)
  \/ \E b \in AllChunks : ReceiveBlob(b)
  \/ ProcessItems
  \/ onCacheEvict

SpecPC == InitPC /\ [][NextPC]_vars

\* no put, receive or eviction callback in flight, no Set waiting
Quiescent == put.pc = "idle" /\ setBuf = <<>> /\ evicting = {}

PersistedBytes == SumOver(rows, [b \in rows |-> BlobSize(b)])

\* the blobs one Put of (k, v) writes
PutBlobs(k, v) ==
  {ChunkBlob(Chunker(v)[i]) : i \in DOMAIN Chunker(v)} \cup {FileBlob(k, Chunker(v))}

(***************************************************************************)
(* Claims on MIMETypeFromReader                                            *)
(***************************************************************************)
\* C16: MIMETypeFromReader has consumed at most 1024 bytes of the underlying
\* reader when it returns; the reader it returns yields the original stream,
\* the consumed prefix followed by the remainder, whatever the length of the
\* stream; a read error met while sniffing does not stop the call and shows
\* only after the buffered prefix has been read from the returned reader.
C16_SniffReplay ==
  /\ mmPc = "copy" => mmPos <= SniffLen
  /\ mmPc \in {"returned", "done"} =>
       /\ mmRet.consumed <= SniffLen
       /\ mmRet = Sniffed(mmIn)
       /\ mmOut = SubSeq(Stream(mmIn), 1, Len(mmOut))
  /\ mmPc = "done" =>
       /\ Len(mmOut) = Readable(mmIn)
       /\ mmOutErr = IF Readable(mmIn) < mmIn.n \/ mmIn.errAt = mmIn.n
                     THEN "fault" ELSE "EOF"
       /\ Len(mmOut) >= Len(mmRet.prefix)

\* a stream longer than the sniffed prefix has been read to its end
C16_Witness ==
  /\ mmPc = "done" /\ mmIn.n > SniffLen /\ mmOutErr = "EOF"
  /\ mmRet.consumed = SniffLen /\ mmOut = Stream(mmIn)

(***************************************************************************)
(* Claims on respWriter and the MimeCache                                  *)
(***************************************************************************)
\* the header is sent at most once, and Close has sent every byte it held
CommitOnceAndFlush ==
  /\ rwResp.commits <= 1
  /\ rwPc = "done" => SelectSeq(rwResp.body, IsBodyByte) = rwW.taken

\* C17: within one download through respWriter the status line and the
\* headers are committed at most once, and only after the 1 KiB buffer has
\* filled or the stream has ended; Close writes every byte still held in the
\* buffer to the client.
C17_HeaderCommit ==
  /\ CommitOnceAndFlush
  /\ rwResp.commits = 1 =>
       \/ rwResp.buffered >= SniffLen
       \/ rwSrc.pos >= SniffLen /\ rwSrc.prefix # <<>>
       \/ rwResp.ended

\* C17 as the code has it: the header is committed at most once; a respWriter
\* made with no type or with application/octet-stream commits it only after
\* 1 KiB is buffered or the stream has ended, a respWriter made with a known
\* type commits it with its first Write; Close writes every byte still held.
C17_HeaderCommitAmended ==
  /\ CommitOnceAndFlush
  /\ (rwResp.commits = 1 /\ rwW.okMime0 \in {"", OctetStream}) =>
       rwResp.buffered >= SniffLen \/ rwResp.ended
  /\ (rwW.okMime0 \notin {"", OctetStream} /\ rwW.taken # <<>>) =>
       (rwResp.commits = 1 /\ rwResp.buffered = 0)

\* a body shorter than 1 KiB of no known type was sent by Close, after the
\* end of the stream
C17_Witness ==
  /\ rwPc = "done" /\ rwW.okMime0 = OctetStream /\ rwW.buf # <<>>
  /\ rwResp.status = 200 /\ rwResp.ended /\ rwResp.body = Stream(rwReq)

\* C30: for every sequence of respWriter.Write calls, with chunks of any
\* sizes, followed by Close, the bytes that reach the http.ResponseWriter are
\* the written chunks in order, none lost and none twice, and every Write
\* reports len(p), whether the chunk was buffered, flushed together with the
\* buffer or passed through.
C30_WriteThrough ==
  /\ rwW.ret = rwW.asked
  /\ rwPc = "copy" => rwResp.body \o rwW.buf = rwW.taken
  /\ rwPc = "done" => SelectSeq(rwResp.body, IsBodyByte) = rwW.taken

\* a chunk has just been flushed together with the bytes that earlier Writes
\* left in the buffer
C30_Witness ==
  /\ rwPc = "copy" /\ rwW.okMime0 = OctetStream /\ rwW.headerWritten
  /\ rwW.asked > 0 /\ rwW.asked < rwResp.buffered /\ rwW.ret = rwW.asked
  /\ Len(rwW.taken) = rwResp.buffered /\ rwResp.body = rwW.taken

\* C18: on a GET for the contents of one ref, with no mimeType given and no
\* entry in the MimeCache for the short key, the type detected from the first
\* bytes of the body is the Content-Type of the response and is stored in the
\* MimeCache under the short key, for bodies shorter and longer than 1 KiB.
C18_MimeStored ==
  (/\ rwPc = "done" /\ ~rwReq.raw /\ rwReq.mimeType = "" /\ rwReq.cached = ""
   /\ rwReq.n > 0 /\ rwResp.status = 200 /\ rwResp.body = Stream(rwReq))
    => /\ rwResp.contentType = Sniffed(rwReq).mime
       /\ rwCache = Sniffed(rwReq).mime

(***************************************************************************)
(* Claims on PerCache.Close                                                *)
(***************************************************************************)
\* C23: PerCache.Close always terminates, also when an eviction callback is
\* running or is issued while it runs: the callback never waits forever for
\* the mutex that Close holds (no state in which Close waits for the
\* goroutine of the cache and that goroutine waits for Close), and an
\* eviction during shutdown still removes its "/"-row.
C23_CloseTerminates ==
  /\ ~(clClose = "stop" /\ clProc = "wantMu")
  /\ clClose = "done" => (clVictim = 0 /\ clRows \subseteq clCache \cup {clBuf[i] : i \in DOMAIN clBuf})

(***************************************************************************)
(* Claims on Storage.EnumerateBlobs                                        *)
(***************************************************************************)
\* C21: EnumerateBlobs sends, in ascending order of the keys, exactly the
\* stored refs that sort strictly after `after` (all of them when after is
\* empty), at most limit of them when limit > 0, whether or not after is
\* itself stored, and closes dest exactly once before it returns.
C21_Enumerate ==
  (enRet = "nil") =>
    LET want == KeysInOrder({k \in enStore : k > enCall.after})
    IN /\ enDest = IF enCall.limit > 0 /\ Len(want) > enCall.limit
                   THEN SubSeq(want, 1, enCall.limit) ELSE want
       /\ enClosed = 1

(***************************************************************************)
(* Claims on limited.Storage                                               *)
(***************************************************************************)
\* C22: a limited.Storage made by NewStorage(sto, size) is size limited:
\* after any sequence of ReceiveBlob calls through it the underlying storage
\* holds at most size of the blobs received, because the blob the LRU policy
\* evicts on a Put is removed from the underlying storage.
C22_SizeLimited ==
  /\ Cardinality(lmStore) <= LmSize
  /\ lmStore = {lmLru[i] : i \in DOMAIN lmLru}

(***************************************************************************)
(* Claims on smartFetch                                                    *)
(***************************************************************************)
\* C26: a static-set is expanded by a fixed pool of 10 workers for any
\* number of members: smartFetch returns nil only after every member was
\* fetched successfully, otherwise the error of the first failing member in
\* member order, and the dispatch never deadlocks (while smartFetch has not
\* returned, the dispatching loop, a worker or the collecting loop can step).
C26_StaticSet ==
  /\ Cardinality(InFlight) <= numWorkers
  /\ sfPc = "returned" =>
       /\ sfRet = 0 => (sfIn.fails = {} /\ sfDone = 1..sfIn.m)
       /\ sfIn.fails # {} =>
            (sfRet \in sfIn.fails /\ \A j \in sfIn.fails : sfRet <= j)
  /\ sfPc = "dispatch" => sfSent - sfTaken < WorkcCap(sfIn.m)
  /\ sfPc = "collect" =>
       \/ sfGot = sfIn.m
       \/ Collect(sfIn.m, sfGot) \in sfDone \cup InFlight
       \/ Cardinality(InFlight) < numWorkers
       \/ InFlight # {}

\* a static-set with more members than workers, two of them failing, gave
\* the error of the first
C26_Witness ==
  /\ sfPc = "returned" /\ sfIn.m > numWorkers /\ sfIn.fails = {2, sfIn.m}
  /\ sfRet = 2

(***************************************************************************)
(* Claims on the trace wrapper                                             *)
(***************************************************************************)
\* C27: the post-hook of an operation is invoked once, after the wrapped
\* operation has returned, with the SizedRefs the operation handled and its
\* error; for EnumerateBlobs with OnEnumerate every enumerated ref is
\* forwarded to the caller's channel and is in the hook's list, the caller's
\* channel is closed exactly once and no channel is closed twice.
C27_TraceHooks ==
  /\ trChClosed <= 1 /\ trDestClosed <= 1
  /\ trMain = "done" =>
       /\ Len(trHooks) = 1 /\ trHooks[1].after
       /\ trHooks[1].op = "enumerate" =>
            /\ trHooks[1].err = trIn.err
            /\ trHooks[1].list = SubSeq(Enumerated(trIn.n), 1, trSent)
            /\ trDest = SubSeq(Enumerated(trIn.n), 1, trSent)
            /\ trDestClosed = 1

(***************************************************************************)
(* Claims on the get tool of Downloader.Start                              *)
(***************************************************************************)
\* C25: when the direct fetch fails with an error other than not-found,
\* Start spawns the tool and returns, without blocking forever whatever the
\* size of the tool's output, a reader from which the caller reads exactly
\* the bytes the tool wrote to its stdout.
C25_CliReader ==
  /\ ~(dcStart = "run" /\ dcChild = "running"
       /\ dcWritten < Len(dcOut.bytes) /\ Len(dcPipe) = DcPipeCap)
  /\ dcGot.done => (dcGot.ok /\ dcGot.data = dcOut.bytes)

(***************************************************************************)
(* Claims on the short form of refs                                        *)
(***************************************************************************)

\* C13: Base64ToRef(RefToBase64(r)) = r for every valid ref r of either
\* hash; RefToBase64(Base64ToRef(t)) = t for every short form t with a lower
\* case hash name; a short form whose hash name has an upper-case letter
\* parses to the ref of the lower-case one.
C13_Base64RoundTrip ==
  /\ (b64In.kind = "ref" /\ Valid(b64In.of) /\ b64Hist = <<"RefToBase64", "Base64ToRef">>)
       => (b64Err = "nil" /\ b64Ref = b64In.of)
  /\ (b64In.form = "short" /\ b64Hist = <<"Base64ToRef", "RefToBase64">>)
       => b64Text = b64In.text
  /\ (b64In.form \in {"short", "mixedcase"} /\ Len(b64Hist) >= 1)
       => (b64Err = "nil" /\ (b64Hist = <<"Base64ToRef">> => b64Ref = b64In.of))

\* a mixed-case short form of the longer hash has been parsed and encoded
\* again, giving the lower-case short form
C13_Witness ==
  /\ b64In.form = "mixedcase" /\ b64In.of.hash = sha224
  /\ b64Hist = <<"Base64ToRef", "RefToBase64">>
  /\ b64Text = ShortForm(b64In.of) /\ b64Text # b64In.text

(***************************************************************************)
(* Claims on the LazyAttr entry points                                     *)
(***************************************************************************)

\* C14: a permanode is returned only when attrs has a key that does not start
\* with camli; a returned permanode is in the store and has camliContent
\* bound to the content ref and every such attribute of the caller set on it;
\* no attribute of the caller that starts with camli is ever set.
C14_LazyAttr ==
  /\ (laRes.done /\ laRes.perma)
       => /\ \E k \in DOMAIN laIn.attrs : ~HasPrefix(k, "camli")
          /\ laStored
          /\ <<camliContent, laRes.content>> \in laSet
          /\ \A k \in DOMAIN laIn.attrs :
               ~HasPrefix(k, "camli") => <<k, laIn.attrs[k]>> \in laSet
  /\ \A kv \in laSet :
       HasPrefix(kv[1], "camli") => kv = <<camliContent, laRes.content>>

(***************************************************************************)
(* Claims on the HTTP handler                                              *)
(***************************************************************************)

\* C15: a POST with permanode=1 that succeeds is answered 201 with two refs,
\* the content's and the permanode's, with or without an a.<name> attribute.
C15_PermanodeFlag ==
  (htReq.method = "POST" /\ htReq.permanode /\ htResp.status = 201)
    => Len(htResp.body) = 2

\* C20: a malformed ref on GET gives 400, an upload rejected as FileEmpty 400,
\* a ref not found on GET 404, every other failure 500, and a method other
\* than GET or POST 405 without any store interaction.
C20_StatusCodes ==
  /\ htResp.cause = "MalformedRef" => htResp.status = 400
  /\ htResp.cause = "FileEmpty" => htResp.status = 400
  /\ htResp.cause = "NotFound" => htResp.status = 404
  /\ htResp.cause = "other" => htResp.status = 500
  /\ htReq.method \notin {"none", "GET", "POST"} => (htResp.status = 405 /\ ~htResp.store)

(***************************************************************************)
(* Claims on the gate                                                      *)
(***************************************************************************)

\* C11: at most GateCap callers hold a permit, the permits taken are those
\* held, no caller touches the store or starts the tool without holding one,
\* and when no call is in flight every permit is free.
C11_Gate ==
  /\ gtGate <= GateCap
  /\ gtGate = Cardinality({p \in Procs : gtProc[p].holds})
  /\ \A p \in Procs : gtProc[p].touched # "unheld"
  /\ \A p \in Procs : gtProc[p].touched = "held" /\ gtProc[p].pc = "working"
                        => gtProc[p].holds
  /\ (\A p \in Procs : gtProc[p].pc \in {"idle", "done"}) => gtGate = 0

\* every caller has returned, one with an error after its work behind the
\* gate, one because of its context, and the gate had been full
C11_Witness ==
  /\ \A p \in Procs : gtProc[p].pc = "done"
  /\ \E p \in Procs : gtProc[p].res = "err" /\ gtProc[p].touched = "held"
  /\ \E p \in Procs : gtProc[p].res = "ctx" /\ gtProc[p].cancelledBlocked
  /\ gtGate = 0

C1_RoundTrip ==
  (/\ udDl.done /\ udDl.contents
   /\ udUp.res = "ok" /\ udUp.via \in {"FromReader", "FromReaderInfo"}
   /\ udDl.items = <<udUp.content>>)
  => /\ (udDl.err = "nil" /\ udDl.readOk) => udDl.data = udUp.s
     /\ ~udDl.faulted => (udDl.err = "nil" /\ udDl.readOk /\ udDl.data = udUp.s)

\* a stream of more than one chunk uploaded by FromReader and downloaded
C1_Witness ==
  /\ udDl.done /\ udDl.contents /\ ~udDl.faulted
  /\ udUp.res = "ok" /\ udUp.via = "FromReader"
  /\ udDl.items = <<udUp.content>>
  /\ Len(udUp.s) > ChunkLen
  /\ udDl.data = udUp.s

\* C10: when UploadFile returns a content ref without an error, on the direct
\* path or through the put tool, the store holds under that ref a file schema
\* blob whose parts are not empty.
C10_VerifiedParts ==
  (udUp.res = "ok" /\ udUp.via \in {"UploadFile", "UploadFileExt"})
  => /\ udUp.content # None
     /\ udUp.content \in udStore
     /\ udUp.content.kind = "file"
     /\ udUp.content.parts # <<>>

\* C24: the verification loop of camput treats a failed attempt (an error of
\* the tool, or a fetched file blob with empty parts) as transient: it makes
\* at most 10 attempts, a later attempt that succeeds and verifies makes the
\* upload return with a nil error, and an error is returned only when the
\* ceiling of attempts is reached without a verified attempt.
C24_TransientAttempts ==
  udCam.pc = "return" =>
    /\ udCam.i <= AttemptCeiling
    /\ udCam.verified => udCam.lastErr = "nil"
    /\ udCam.lastErr # "nil" => (udCam.i = AttemptCeiling /\ ~udCam.verified)

\* C29: the refs camput returns come from one run of the tool, never from the
\* output of several attempts put together: UploadFileExt returns the content
\* ref of the upload and, when no permanode was asked for, a zero permanode ref.
C29_RefsOfOneRun ==
  (udCam.pc = "return" /\ udCam.out # <<>>) =>
    /\ udCam.refs = udCam.out
    /\ ~udCam.permanode => CamputReturn(udCam.refs, udCam.lastErr).perma = None

\* C19: Downloader.Start tries a direct fetch for each ref first; when that
\* fails with not-found, with contents false and with contents true alike, the
\* error is returned to the caller and no pk-get/camget is spawned; the tool is
\* spawned for a ref only when its direct fetch failed with another error.
C19_NotFoundNoSpawn ==
  \A i \in DOMAIN udDl.trail :
    /\ udDl.trail[i].fetchErr = "notfound" =>
         (~udDl.trail[i].spawned /\ udDl.err = "notfound")
    /\ udDl.trail[i].spawned => udDl.trail[i].fetchErr = "other"

(***************************************************************************)
(* Claims on retryTransport                                                *)
(***************************************************************************)

\* C7: one RoundTrip makes at most MaxCount invocations; a response below 500
\* with a nil error is returned as it is right after its invocation; after an
\* error or a status >= 500 the loop ends only when the tries, the time or the
\* context are used up, or the caller's GetBody fails.
C7_RetryBound ==
  /\ Strategy.MaxCount > 0 => rtCalls <= Strategy.MaxCount
  /\ IsFinal(rtLast) => (rtPc = "done" /\ rtResult = rtLast /\ rtStop = "none")
  /\ (rtPc = "done" /\ ~IsFinal(rtLast)) =>
       \/ rtStop = "count" /\ rtCalls = Strategy.MaxCount
       \/ rtStop \in {"time", "ctx"}
       \/ rtStop = "none" /\ HasBody /\ rtReq.getBody = "err"

\* the default strategy used up its three tries on 5xx responses
C7_Witness ==
  /\ rtPc = "done" /\ rtStrat = ZeroStrategy /\ rtStop = "count"
  /\ rtCalls = DefaultMaxCount /\ rtLast.status = 500

\* C8: for a body without a GetBody hook every attempt is handed a body that
\* yields the complete original byte sequence.
C8_BodyComplete ==
  (rtCalls > 0 /\ HasBody /\ rtReq.getBody = "none") => rtHanded = rtReq.body

\* C28: every response RoundTrip returns to its caller, a 5xx response
\* returned after the tries are used up or after a cancellation included, has
\* an open body; only the responses dropped before a further try are closed.
C28_ReturnedBodyOpen ==
  (rtPc = "done" /\ rtResult.status # 0) => rtResult.open

\* C9 as stated: when the loop ends on a cancelled context RoundTrip returns
\* the cancellation error, whatever the last attempt returned; when it ends
\* with neither response nor error and no cancellation, ErrEmptyResponse.
C9_CancelError ==
  (rtPc = "done" /\ rtStop # "none") =>
    /\ rtStop = "ctx" => rtResult.err = "Canceled"
    /\ (~rtCancelled /\ rtLast.status = 0 /\ rtLast.err = "nil")
         => rtResult.err = "ErrEmptyResponse"

\* C9 amended: after the loop RoundTrip returns the last attempt's response
\* and error when there is either; only when the last attempt gave neither
\* does it return the cancellation error of a cancelled context, and
\* ErrEmptyResponse when the context is not cancelled.
C9_CancelErrorAmended ==
  (rtPc = "done" /\ rtStop # "none") =>
    IF rtLast.status = 0 /\ rtLast.err = "nil"
      THEN /\ rtResult.status = 0
           /\ rtResult.err = IF rtCancelled THEN "Canceled" ELSE "ErrEmptyResponse"
      ELSE rtResult = rtLast

\* the context was cancelled during the retries and the last attempt gave
\* neither response nor error
C9_Witness ==
  /\ rtPc = "done" /\ rtStop = "ctx" /\ rtCalls > 1
  /\ rtLast.status = 0 /\ rtLast.err = "nil"

(***************************************************************************)
(* Claims on PerCache                                                      *)
(***************************************************************************)

\* C2: a Put(k, v) that returned success, followed immediately by Get(k),
\* gives a reader that yields exactly v.
C2_PutThenGet ==
  (getRes.afterPut # None /\ getRes.k = getRes.afterPut.k)
    => (getRes.err = "nil" /\ getRes.readOk /\ getRes.data = getRes.afterPut.v)

\* C3: at every quiescent time the bytes persisted under "/"-rows are at most
\* max_cost_bytes plus the buffer slack.
C3_SizeBound == Quiescent => PersistedBytes <= MaxCost + BufferSlack

\* C4: in every quiesced state each "/"-row has a TinyLFU entry of equal cost
\* and each TinyLFU entry has a "/"-row.
C4_Mirror ==
  Quiescent =>
    /\ \A b \in rows : \E e \in cache : e.key = b /\ e.cost = BlobSize(b)
    /\ \A e \in cache : e.key \in rows

\* C5: the ","-row of a Put is written only after every chunk and the file
\* blob of that Put were written, and a Put that returns an error leaves the
\* name mappings as they were before the call.
C5_MappingLast ==
  [][/\ (names' # names) =>
          /\ put.pc = "map"
          /\ PutBlobs(put.k, put.v) \subseteq put.written
          /\ \A n \in NodeIDs \ {put.k} : names'[n] = names[n]
     /\ (putRes'.res = "err" /\ putRes.res # "err") => names' = put.names0]_vars

\* a Put of a two-chunk stream failed after it had written a blob
C5_Witness ==
  putRes.res = "err" /\ putRes.written # {} /\ Len(putRes.v) > ChunkLen

\* C6 as stated: Get fails with NotFound without a mapping, and fails with
\* Corrupt, returning no reader, when the file blob or a chunk is missing.
C6_GetFails ==
  getRes.err # "none" =>
    /\ ~getRes.mapped => getRes.err = "NotFound"
    /\ (getRes.mapped /\ (~getRes.fileRow \/ ~getRes.chunkRows)) => getRes.err = "Corrupt"

\* C6 amended: Get fails with NotFound without a mapping and with Corrupt when
\* the file blob is missing; when only a chunk is missing Get returns a reader
\* with a nil error, and reading that reader fails.
C6_GetFailsAmended ==
  getRes.err # "none" =>
    /\ ~getRes.mapped => getRes.err = "NotFound"
    /\ (getRes.mapped /\ ~getRes.fileRow) => getRes.err = "Corrupt"
    /\ (getRes.mapped /\ getRes.fileRow /\ ~getRes.chunkRows)
         => (getRes.err = "nil" /\ ~getRes.readOk)
    /\ (getRes.mapped /\ getRes.fileRow /\ getRes.chunkRows)
         => (getRes.err = "nil" /\ getRes.readOk)

\* a Get of a mapped name whose file blob is stored and whose chunk is gone
C6_Witness ==
  getRes.err # "none" /\ getRes.mapped /\ getRes.fileRow /\ ~getRes.chunkRows
====
